---- MODULE Spec2Model ----
(***************************************************************************)
(* A model of the prompt-manager extension: the StorageService repository  *)
(* over the host key-value store, the PromptTreeDataProvider (tree         *)
(* projection, search filter, debounced refresh), the PromptManager        *)
(* operations with their change event, activation (default data and data   *)
(* version) and the SyncService stub.                                      *)
(*                                                                         *)
(* A repository call is one action where it runs alone. Where calls        *)
(* overlap, a call is split at its awaits into a read step and a write     *)
(* step, held in tasks with the collection it read; a write step stores    *)
(* the whole collection computed from that read. deactivate() and the      *)
(* batch writes savePrompts / saveCategories have actions of their own,    *)
(* and the change event's subscription to refresh() is checked under       *)
(* weak fairness of the clock and of the two timer callbacks.              *)
(*                                                                         *)
(* Strings are sequences of one-character strings, so that substring,      *)
(* lower-casing, trimming and comparison are computed and not assumed.     *)
(* An id is a sequence of tokens whose last token may be the reserved      *)
(* suffix "-guide"; the title marker of a guide is the token GUIDE_MARK.   *)
(* undefined / null is the empty sequence where the code only tests the    *)
(* value for truthiness or equality with a non-empty id.                   *)
(***************************************************************************)
EXTENDS Integers, Sequences, FiniteSets, TLC

VARIABLES
    prompts,         \* globalState[STORAGE_KEYS.PROMPTS]: sequence of PromptItem
    categories,      \* globalState[STORAGE_KEYS.CATEGORIES]: sequence of PromptCategory
    searchFilter,    \* PromptTreeDataProvider.searchFilter: <<>> (null) or <<term>>
    treeData,        \* PromptTreeDataProvider.treeData: the last computed root list
    refreshTimeout,  \* PromptTreeDataProvider.refreshTimeout: timer handle
    searchTimeout,   \* PromptTreeDataProvider.searchTimeout: timer handle
    now,             \* the event loop's clock, in milliseconds
    fired,           \* number of _onDidChangeTreeData.fire() calls so far
    hist,            \* bookkeeping about the calls made, read by the properties only
    changeEvents,    \* number of PromptManager._onDidPromptsChange.fire() calls so far
    dataVersion,     \* globalState["prompt-manager.data-version"]
    githubData,      \* globalState["prompt-manager.github-data"]
    authToken,       \* configuration promptManager.syncAuthToken
    initialized,     \* StorageService.initialized
    tasks,           \* the calls in flight: each one's position and local variables
    disposed,        \* deactivate() has run
    last             \* the last completed call: its name, arguments, outcome

vars == <<prompts, categories, searchFilter, treeData, refreshTimeout,
          searchTimeout, now, fired, hist, changeEvents, dataVersion, githubData,
          authToken, initialized, tasks, disposed, last>>

providerVars == <<searchFilter, treeData, refreshTimeout, searchTimeout, now, fired, hist>>

lifeVars == <<tasks, disposed>>

managerVars == <<changeEvents, dataVersion, githubData, authToken, initialized, lifeVars>>

-----------------------------------------------------------------------------
(* Values *)

Absent == <<>>
Null == <<>>
GUIDE_SUFFIX == "-guide"
GUIDE_MARK == "GUIDE_MARK"
UNCATEGORIZED == <<"__uncategorized__">>
CATEGORY_ITEM == "categoryItem"
PROMPT_ITEM == "promptItem"
GUIDE_ITEM == "guideItem"

Range(s) == {s[i] : i \in 1..Len(s)}

\* Array.prototype.findIndex, 1-based; 0 when no element satisfies Test
FindIndex(s, Test(_)) ==
    IF \E i \in 1..Len(s) : Test(s[i])
    THEN CHOOSE i \in 1..Len(s) : Test(s[i]) /\ \A j \in 1..(i - 1) : ~Test(s[j])
    ELSE 0

\* Array.prototype.filter
Filter(s, Test(_)) == SelectSeq(s, Test)

\* Array.prototype.map
Map(s, F(_)) == [i \in 1..Len(s) |-> F(s[i])]

UniqueIds(s) == \A i, j \in 1..Len(s) : s[i].id = s[j].id => i = j

HasId(s, id) == \E r \in Range(s) : r.id = id

-----------------------------------------------------------------------------
(* StorageService *)

getPrompts == prompts

getCategories == categories

getPrompt(id) ==
    LET i == FindIndex(getPrompts, LAMBDA p : p.id = id)
    IN  IF i = 0 THEN <<>> ELSE <<getPrompts[i]>>

\* the collection savePrompt writes back
savePromptDropOld(ps, prompt) ==
    Append(Filter(ps, LAMBDA p : p.id # prompt.id), prompt)

savePromptDuplicate(ps, prompt) == Append(ps, prompt)

savePromptResult(ps, prompt) ==
    LET existingIndex == FindIndex(ps, LAMBDA p : p.id = prompt.id)
    IN  IF existingIndex >= 1
        THEN [ps EXCEPT ![existingIndex] = prompt]
        ELSE Append(ps, prompt)

\* the collection savePrompts writes back: the stored collection with every
\* prompt of the batch upserted into it, in order
savePromptsAppend(mergedPrompts, batch) == mergedPrompts \o batch

RECURSIVE savePromptsResult(_, _)
savePromptsResult(mergedPrompts, batch) ==
    IF batch = <<>>
    THEN mergedPrompts
    ELSE savePromptsResult(savePromptResult(mergedPrompts, Head(batch)), Tail(batch))

\* the collection deletePrompt writes back (promptIndex >= 1)
deletePromptRemove(ps, promptIndex) ==
    [i \in 1..(Len(ps) - 1) |-> IF i < promptIndex THEN ps[i] ELSE ps[i + 1]]

deletePromptResult(ps, promptIndex) ==
    [ps EXCEPT ![promptIndex] = [ps[promptIndex] EXCEPT !.categoryId = Absent]]

\* the category saveCategory stores when the id is new; new Date() is the clock
newCategory(cs, category) ==
    [category EXCEPT
        !.createdAt = IF category.createdAt = Absent THEN <<now>> ELSE category.createdAt,
        !.sortOrder = IF category.sortOrder = Absent THEN <<Len(cs)>> ELSE category.sortOrder]

saveCategoryResult(cs, category) ==
    LET existingIndex == FindIndex(cs, LAMBDA c : c.id = category.id)
    IN  IF existingIndex >= 1
        THEN [cs EXCEPT ![existingIndex] = category]
        ELSE Append(cs, newCategory(cs, category))

\* the collection a run of saveCategory calls, one per category, leaves
RECURSIVE saveCategoriesEach(_, _)
saveCategoriesEach(cs, batch) ==
    IF batch = <<>>
    THEN cs
    ELSE saveCategoriesEach(saveCategoryResult(cs, Head(batch)), Tail(batch))

\* the two collections deleteCategory writes back
deleteCategoryFirstRef(ps, id) ==
    LET i == FindIndex(ps, LAMBDA p : p.categoryId = id)
    IN  IF i = 0 THEN ps ELSE [ps EXCEPT ![i] = [ps[i] EXCEPT !.categoryId = Absent]]

deleteCategoryPrompts(ps, id) ==
    Map(ps, LAMBDA prompt :
        IF prompt.categoryId = id THEN [prompt EXCEPT !.categoryId = Absent] ELSE prompt)

deleteCategoryCategories(cs, id) == Filter(cs, LAMBDA category : category.id # id)

Done(op, arg, threw) ==
    [op |-> op, arg |-> arg, threw |-> threw, ret |-> <<>>,
     prePrompts |-> prompts, preCategories |-> categories]

Returned(op, arg, ret) ==
    [op |-> op, arg |-> arg, threw |-> FALSE, ret |-> ret,
     prePrompts |-> prompts, preCategories |-> categories]

-----------------------------------------------------------------------------
(* Strings *)

\* String.prototype.toLowerCase on the model's alphabet
LowerChar(c) == IF c = "A" THEN "a" ELSE IF c = "B" THEN "b" ELSE c

toLowerCase(str) == [i \in 1..Len(str) |-> LowerChar(str[i])]

\* String.prototype.trim
trim(str) ==
    LET keep == {i \in 1..Len(str) : str[i] # " "}
    IN  IF keep = {} THEN <<>>
        ELSE LET lo == CHOOSE i \in keep : \A j \in keep : i <= j
                 hi == CHOOSE i \in keep : \A j \in keep : j <= i
             IN  SubSeq(str, lo, hi)

\* String.prototype.includes
includes(str, part) ==
    \E i \in 1..(Len(str) - Len(part) + 1) : SubSeq(str, i, i + Len(part) - 1) = part

\* id.endsWith('-guide')
endsWithGuide(id) == Len(id) >= 1 /\ id[Len(id)] = GUIDE_SUFFIX

\* `${categoryId}-guide`
guideIdOf(categoryId) == Append(categoryId, GUIDE_SUFFIX)

\* title.includes('说明书')
hasGuideMark(title) == GUIDE_MARK \in Range(title)

-----------------------------------------------------------------------------
(* PromptTreeDataProvider: the tree projection *)

UNCATEGORIZED_SORT_ORDER == 999

UNCATEGORIZED_NAME == <<"uncategorized">>

GUIDE_LABEL == <<"guide">>

createUncategorizedCategory(promptCount) ==
    [id |-> UNCATEGORIZED,
     label |-> [text |-> UNCATEGORIZED_NAME, count |-> <<promptCount>>],
     contextValue |-> CATEGORY_ITEM,
     data |-> [id |-> UNCATEGORIZED, name |-> UNCATEGORIZED_NAME,
               sortOrder |-> <<UNCATEGORIZED_SORT_ORDER>>, createdAt |-> Absent],
     parentId |-> Absent,
     sortOrder |-> Absent]

createCategoryItem(category, promptCount) ==
    [id |-> category.id,
     label |-> [text |-> category.name, count |-> <<promptCount>>],
     contextValue |-> CATEGORY_ITEM,
     data |-> category,
     parentId |-> Absent,
     sortOrder |-> category.sortOrder]

createPromptItemOwnCategory(prompt, parentId) ==
    [id |-> prompt.id,
     label |-> [text |-> prompt.title, count |-> <<>>],
     contextValue |-> PROMPT_ITEM,
     data |-> prompt,
     parentId |-> prompt.categoryId,
     sortOrder |-> Absent]

createPromptItem(prompt, parentId) ==
    [id |-> prompt.id,
     label |-> [text |-> prompt.title, count |-> <<>>],
     contextValue |-> PROMPT_ITEM,
     data |-> prompt,
     parentId |-> parentId,
     sortOrder |-> Absent]

getCategoryPromptCount(categoryId, ps) ==
    Len(Filter(ps, LAMBDA p : p.categoryId = categoryId))

\* the test of the uncategorized set: no categoryId, or one that names no category
isUncategorizedAbsentOnly(p, cs) == p.categoryId = Absent

isUncategorized(p, cs) ==
    p.categoryId = Absent \/ ~(\E c \in Range(cs) : c.id = p.categoryId)

\* getRootItems without an effective filter
hierarchySortedBySortOrder(ps, cs) ==
    LET items ==
            Map(cs, LAMBDA category :
                    createCategoryItem(category, getCategoryPromptCount(category.id, ps)))
    IN  CHOOSE s \in [1..Len(items) -> Range(items)] :
            /\ Range(s) = Range(items)
            /\ \A i, j \in 1..Len(s) : i < j => s[i].sortOrder[1] <= s[j].sortOrder[1]

hierarchy(ps, cs) ==
    LET categoryItems ==
            Map(cs, LAMBDA category :
                    createCategoryItem(category, getCategoryPromptCount(category.id, ps)))
        uncategorizedPrompts == Filter(ps, LAMBDA p : isUncategorized(p, cs))
    IN  IF Len(uncategorizedPrompts) > 0
        THEN Append(categoryItems, createUncategorizedCategory(Len(uncategorizedPrompts)))
        ELSE categoryItems

\* the guide convention
isGuide(p) == endsWithGuide(p.id) \/ hasGuideMark(p.title)

\* createGuideItem: <<>> when the category has no guide, else <<the GuideLeaf>>
createGuideItem(categoryId) ==
    LET i == FindIndex(getPrompts, LAMBDA p : p.categoryId = categoryId /\ isGuide(p))
    IN  IF i = 0 THEN <<>>
        ELSE <<[id |-> <<"guide-">> \o categoryId,
                label |-> [text |-> GUIDE_LABEL, count |-> <<>>],
                contextValue |-> GUIDE_ITEM,
                data |-> getPrompts[i],
                parentId |-> categoryId,
                sortOrder |-> Absent]>>

\* the prompts getChildItems lists after the guide
nonGuidePrompts(categoryPrompts, elementId) ==
    Filter(categoryPrompts, LAMBDA p : p.id # guideIdOf(elementId))

getChildItems(element) ==
    IF element.contextValue = CATEGORY_ITEM
    THEN LET categoryPrompts ==
                 IF element.id = UNCATEGORIZED
                 THEN Filter(getPrompts, LAMBDA p : isUncategorized(p, getCategories))
                 ELSE Filter(getPrompts, LAMBDA p : p.categoryId = element.id)
             guideItem ==
                 IF element.id # UNCATEGORIZED THEN createGuideItem(element.id) ELSE <<>>
         IN  guideItem \o Map(nonGuidePrompts(categoryPrompts, element.id),
                              LAMBDA p : createPromptItem(p, element.id))
    ELSE <<>>

-----------------------------------------------------------------------------
(* PromptTreeDataProvider: the search filter *)

\* collation rank of a character: case is ignored at the first level
CharRank(c) ==
    IF c = " " THEN 0
    ELSE IF LowerChar(c) = "a" THEN 1
    ELSE IF LowerChar(c) = "b" THEN 2
    ELSE 3

IsUpper(c) == LowerChar(c) # c

\* String.prototype.localeCompare: -1, 0 or 1. Letters decide first, compared
\* without case; between strings equal up to case the first difference in
\* case decides, lower case first.
localeCompare(x, y) ==
    LET n == IF Len(x) < Len(y) THEN Len(x) ELSE Len(y)
        rdiff == {i \in 1..n : CharRank(x[i]) # CharRank(y[i])}
        cdiff == {i \in 1..n : x[i] # y[i]}
    IN  IF rdiff # {}
        THEN LET i == CHOOSE k \in rdiff : \A j \in rdiff : k <= j
             IN  IF CharRank(x[i]) < CharRank(y[i]) THEN -1 ELSE 1
        ELSE IF Len(x) # Len(y)
        THEN IF Len(x) < Len(y) THEN -1 ELSE 1
        ELSE IF cdiff # {}
        THEN LET i == CHOOSE k \in cdiff : \A j \in cdiff : k <= j
             IN  IF IsUpper(y[i]) THEN -1 ELSE 1
        ELSE 0

\* the term getSearchResults searches for
searchTermOf(filter) == trim(toLowerCase(filter))

titleMatch(prompt, searchTerm) == includes(toLowerCase(prompt.title), searchTerm)

directMatchTitleOrTag(prompt, searchTerm) ==
    \/ titleMatch(prompt, searchTerm)
    \/ \E i \in 1..Len(prompt.tags) : includes(toLowerCase(prompt.tags[i]), searchTerm)

\* isMatch of the first loop: title, else a tag, else the content
directMatch(prompt, searchTerm) ==
    IF titleMatch(prompt, searchTerm) THEN TRUE
    ELSE IF \E i \in 1..Len(prompt.tags) : includes(toLowerCase(prompt.tags[i]), searchTerm)
    THEN TRUE
    ELSE includes(toLowerCase(prompt.content), searchTerm)

matchedCategoryIds(cs, searchTerm) ==
    Map(Filter(cs, LAMBDA category : includes(toLowerCase(category.name), searchTerm)),
        LAMBDA category : category.id)

pushAlways(matched, prompt) == Append(matched, prompt)

\* the inner step of the second loop: push unless the id is already matched
pushUnlessMatched(matched, prompt) ==
    IF \E i \in 1..Len(matched) : matched[i].id = prompt.id
    THEN matched
    ELSE Append(matched, prompt)

RECURSIVE addPrompts(_, _)
addPrompts(matched, categoryPrompts) ==
    IF categoryPrompts = <<>> THEN matched
    ELSE addPrompts(pushUnlessMatched(matched, Head(categoryPrompts)), Tail(categoryPrompts))

RECURSIVE addCategoryPrompts(_, _, _)
addCategoryPrompts(matched, categoryIds, ps) ==
    IF categoryIds = <<>> THEN matched
    ELSE addCategoryPrompts(
             addPrompts(matched, Filter(ps, LAMBDA p : p.categoryId = Head(categoryIds))),
             Tail(categoryIds), ps)

compareTitleOnly(a, b, searchTerm) == localeCompare(a.title, b.title)

\* the comparator of matchedPrompts.sort
compareRelevance(a, b, searchTerm) ==
    LET aInTitle == titleMatch(a, searchTerm)
        bInTitle == titleMatch(b, searchTerm)
    IN  IF aInTitle # bInTitle
        THEN IF aInTitle THEN -1 ELSE 1
        ELSE localeCompare(a.title, b.title)

\* Array.prototype.sort is stable: x goes after the last element not greater than it
insertSorted(sorted, x, searchTerm) ==
    LET le == {k \in 1..Len(sorted) : compareRelevance(sorted[k], x, searchTerm) <= 0}
        at == IF le = {} THEN 0 ELSE CHOOSE k \in le : \A j \in le : j <= k
    IN  SubSeq(sorted, 1, at) \o <<x>> \o SubSeq(sorted, at + 1, Len(sorted))

RECURSIVE sortMatched(_, _)
sortMatched(s, searchTerm) ==
    IF s = <<>> THEN <<>>
    ELSE insertSorted(sortMatched(SubSeq(s, 1, Len(s) - 1), searchTerm), s[Len(s)], searchTerm)

\* JavaScript truthiness of this.searchFilter: neither null nor ""
filterTruthy(filter) == filter # Null /\ filter[1] # <<>>

getSearchResults(filter) ==
    IF ~filterTruthy(filter) THEN <<>>
    ELSE LET searchTerm == searchTermOf(filter[1])
             direct == Filter(getPrompts, LAMBDA prompt : directMatch(prompt, searchTerm))
             matched == addCategoryPrompts(direct,
                            matchedCategoryIds(getCategories, searchTerm), getPrompts)
         IN  Map(sortMatched(matched, searchTerm), LAMBDA prompt : createPromptItem(prompt, Absent))

\* the test at the head of getRootItems
filterActiveNoTrim(filter) == filter # Null /\ filter[1] # <<>>

filterActive(filter) == filterTruthy(filter) /\ trim(filter[1]) # <<>>

getRootItems ==
    IF filterActive(searchFilter)
    THEN getSearchResults(searchFilter)
    ELSE hierarchy(getPrompts, getCategories)

-----------------------------------------------------------------------------
(* The repository's calls, each run to completion (no interleaving) *)

MaxPrompts == 2

C1Id == <<"c1">>
C2Id == <<"c2">>

StorePromptIds == {<<"p1">>, <<"p2">>, <<"p3">>}

StorePromptInputs ==
    [id : {<<"p1">>}, title : {<<"a">>, <<"b">>}, content : {<<"x">>},
     categoryId : {Absent, C1Id, C2Id}, tags : {<<>>}]
        \cup [id : {<<"p2">>, <<"p3">>}, title : {<<"a">>}, content : {<<"x">>},
               categoryId : {Absent, C1Id, C2Id}, tags : {<<>>}]

StoreCategoryInputs ==
    [id : {C1Id}, name : {<<"a">>, <<"b">>}, sortOrder : {Absent}, createdAt : {Absent}]
        \cup [id : {C2Id}, name : {<<"a">>}, sortOrder : {Absent}, createdAt : {Absent}]

NoCall == [op |-> "none", arg |-> <<>>, threw |-> FALSE, ret |-> <<>>,
           prePrompts |-> <<>>, preCategories |-> <<>>]

ProviderIdle ==
    /\ searchFilter = Null
    /\ treeData = <<>>
    /\ refreshTimeout = <<>>
    /\ searchTimeout = <<>>
    /\ now = 0
    /\ fired = 0
    /\ hist = <<>>

ManagerIdle ==
    /\ changeEvents = 0
    /\ dataVersion = Absent
    /\ githubData = Absent
    /\ authToken = Absent
    /\ initialized = FALSE
    /\ tasks = <<>>
    /\ disposed = FALSE

StoreInit ==
    /\ prompts = <<>>
    /\ categories = <<>>
    /\ ProviderIdle
    /\ ManagerIdle
    /\ last = NoCall

SavePrompt(prompt) ==
    /\ (\E p \in Range(prompts) : p.id = prompt.id) \/ Len(prompts) < MaxPrompts
    /\ prompts' = savePromptResult(getPrompts, prompt)
    /\ last' = Done("savePrompt", prompt, FALSE)
    /\ UNCHANGED <<managerVars, categories, providerVars>>

DeletePrompt(id) ==
    LET promptIndex == FindIndex(getPrompts, LAMBDA prompt : prompt.id = id)
    IN  /\ IF promptIndex = 0
           THEN /\ last' = Done("deletePrompt", id, TRUE)
                /\ UNCHANGED prompts
           ELSE /\ prompts' = deletePromptResult(getPrompts, promptIndex)
                /\ last' = Done("deletePrompt", id, FALSE)
        /\ UNCHANGED <<managerVars, categories, providerVars>>

SaveCategory(category) ==
    /\ categories' = saveCategoryResult(getCategories, category)
    /\ last' = Done("saveCategory", category, FALSE)
    /\ UNCHANGED <<managerVars, prompts, providerVars>>

UpdateCategory(category) ==
    LET existingIndex == FindIndex(getCategories, LAMBDA c : c.id = category.id)
    IN  /\ IF existingIndex = 0
           THEN /\ last' = Done("updateCategory", category, TRUE)
                /\ UNCHANGED categories
           ELSE /\ categories' = [getCategories EXCEPT ![existingIndex] = category]
                /\ last' = Done("updateCategory", category, FALSE)
        /\ UNCHANGED <<managerVars, prompts, providerVars>>

DeleteCategory(id) ==
    LET filteredCategories == deleteCategoryCategories(getCategories, id)
    IN  /\ IF Len(filteredCategories) = Len(getCategories)
           THEN /\ last' = Done("deleteCategory", id, TRUE)
                /\ UNCHANGED <<prompts, categories>>
           ELSE /\ categories' = filteredCategories
                /\ prompts' = deleteCategoryPrompts(getPrompts, id)
                /\ last' = Done("deleteCategory", id, FALSE)
        /\ UNCHANGED <<managerVars, providerVars>>

ClearAll ==
    /\ prompts' = <<>>
    /\ categories' = <<>>
    /\ last' = Done("clearAll", <<>>, FALSE)
    /\ UNCHANGED <<managerVars, providerVars>>

StoreNext ==
    \/ \E prompt \in StorePromptInputs : SavePrompt(prompt)
    \/ \E id \in StorePromptIds : DeletePrompt(id)
    \/ \E category \in StoreCategoryInputs : SaveCategory(category)
    \/ \E category \in StoreCategoryInputs : UpdateCategory(category)
    \/ \E id \in {C1Id, C2Id} : DeleteCategory(id)
    \/ ClearAll

StoreSpec == StoreInit /\ [][StoreNext]_vars

-----------------------------------------------------------------------------
(* The repository's calls with the batch saves, each run to completion.  A  *)
(* batch is any sequence of records: it may repeat an id, and an id of the  *)
(* batch may be stored already.                                             *)

\* the collection saveCategories writes back: the merge loop over the batch
RECURSIVE saveCategoriesResult(_, _)
saveCategoriesResult(mergedCategories, batch) ==
    IF batch = <<>>
    THEN mergedCategories
    ELSE LET category == Head(batch)
             existingIndex == FindIndex(mergedCategories, LAMBDA c : c.id = category.id)
         IN  saveCategoriesResult(
                 IF existingIndex >= 1
                 THEN [mergedCategories EXCEPT ![existingIndex] = category]
                 ELSE Append(mergedCategories, newCategory(mergedCategories, category)),
                 Tail(batch))

Success(data) == [success |-> TRUE, data |-> data]

SavePrompts(batch) ==
    /\ prompts' = savePromptsResult(getPrompts, batch)
    /\ last' = Returned("savePrompts", batch, Success(Len(batch)))
    /\ UNCHANGED <<managerVars, categories, providerVars>>

SaveCategories(batch) ==
    /\ categories' = saveCategoriesResult(getCategories, batch)
    /\ last' = Returned("saveCategories", batch, Success(Len(batch)))
    /\ UNCHANGED <<managerVars, prompts, providerVars>>

BatchPromptInputs ==
    [id : {<<"p1">>, <<"p2">>}, title : {<<"a">>, <<"b">>}, content : {<<"x">>},
     categoryId : {Absent}, tags : {<<>>}]
        \cup {[id |-> <<"p1">>, title |-> <<"a">>, content |-> <<"x">>, categoryId |-> C1Id,
               tags |-> <<>>]}

\* every sequence of at most n elements of pool, repeated ids included
Batches(pool, n) == UNION {[1..k -> pool] : k \in 0..n}

BatchNext ==
    \/ \E prompt \in BatchPromptInputs : SavePrompt(prompt)
    \/ \E batch \in Batches(BatchPromptInputs, 2) : SavePrompts(batch)
    \/ \E id \in {<<"p1">>, <<"p2">>} : DeletePrompt(id)
    \/ \E category \in StoreCategoryInputs : SaveCategory(category)
    \/ \E batch \in Batches(StoreCategoryInputs, 2) : SaveCategories(batch)
    \/ \E category \in StoreCategoryInputs : UpdateCategory(category)
    \/ \E id \in {C1Id, C2Id} : DeleteCategory(id)
    \/ ClearAll

BatchSpec == StoreInit /\ [][BatchNext]_vars

-----------------------------------------------------------------------------
(* The tree view's queries *)

GetRootItems ==
    /\ last' = Returned("getRootItems", <<>>, getRootItems)
    /\ treeData' = IF filterActive(searchFilter) THEN treeData ELSE getRootItems
    /\ UNCHANGED <<managerVars, prompts, categories, searchFilter, refreshTimeout, searchTimeout,
                   now, fired, hist>>

GetChildItems(element) ==
    /\ last' = Returned("getChildItems", element, getChildItems(element))
    /\ UNCHANGED <<managerVars, prompts, categories, providerVars>>

\* sequences without repeated ids, of at most n elements drawn from pool
SeqsOf(pool, n) ==
    {s \in UNION {[1..k -> pool] : k \in 0..n} : UniqueIds(s)}

TreePromptInputs ==
    [id : {<<"p1">>, guideIdOf(C1Id), <<"p2", GUIDE_SUFFIX>>},
     title : {<<"a">>, <<"a", GUIDE_MARK>>}, content : {<<"x">>},
     categoryId : {Absent, C1Id, C2Id}, tags : {<<>>}]
        \cup [id : {guideIdOf(UNCATEGORIZED)}, title : {<<"a">>}, content : {<<"x">>},
               categoryId : {Absent}, tags : {<<>>}]

TreeCategoryInputs ==
    {[id |-> C1Id, name |-> <<"a">>, sortOrder |-> <<1>>, createdAt |-> <<0>>],
     [id |-> C2Id, name |-> <<"b">>, sortOrder |-> <<0>>, createdAt |-> <<0>>]}

\* no filter in effect: null, "" or blank
IdleFilters == {Null, <<<<>>>>, <<<<" ">>>>}

TreeInit ==
    /\ prompts \in SeqsOf(TreePromptInputs, MaxPrompts)
    /\ categories \in SeqsOf(TreeCategoryInputs, Cardinality(TreeCategoryInputs))
    /\ searchFilter \in IdleFilters
    /\ treeData = <<>>
    /\ refreshTimeout = <<>>
    /\ searchTimeout = <<>>
    /\ now = 0
    /\ fired = 0
    /\ hist = <<>>
    /\ ManagerIdle
    /\ last = NoCall

TreeNext ==
    \/ GetRootItems
    \/ \E element \in Range(treeData) : GetChildItems(element)

TreeSpec == TreeInit /\ [][TreeNext]_vars

MaxSearchPrompts == 3

SearchIds == <<"p1", "p2", "p3", "p4", "p5">>

\* title x (content, tags, categoryId)
SearchPromptShapes ==
    {[title |-> t, content |-> e[1], tags |-> e[2], categoryId |-> e[3]] :
        t \in {<<"A">>, <<"b">>, <<"a", "b">>},
        e \in {<<<<"x">>, <<>>, Absent>>,
               <<<<"x", "a">>, <<>>, Absent>>,
               <<<<"x">>, <<<<"x">>, <<"B">>>>, C1Id>>,
               <<<<"x">>, <<>>, C1Id>>}}

SearchStores ==
    UNION {{[i \in 1..k |->
                [id |-> <<SearchIds[i]>>, title |-> f[i].title, content |-> f[i].content,
                 tags |-> f[i].tags, categoryId |-> f[i].categoryId]] :
            f \in [1..k -> SearchPromptShapes]} : k \in 0..MaxSearchPrompts}

SearchCategories ==
    {<<>>,
     <<[id |-> C1Id, name |-> <<"a", "B">>, sortOrder |-> <<0>>, createdAt |-> <<0>>]>>,
     <<[id |-> C1Id, name |-> <<"x">>, sortOrder |-> <<0>>, createdAt |-> <<0>>]>>}

SearchFilters == {<<<<"A">>>>, <<<<" ", "b">>>>}

SearchInit ==
    /\ prompts \in SearchStores
    /\ categories \in SearchCategories
    /\ searchFilter \in SearchFilters
    /\ treeData = <<>>
    /\ refreshTimeout = <<>>
    /\ searchTimeout = <<>>
    /\ now = 0
    /\ fired = 0
    /\ hist = <<>>
    /\ ManagerIdle
    /\ last = NoCall

SearchNext == GetRootItems

SearchSpec == SearchInit /\ [][SearchNext]_vars

-----------------------------------------------------------------------------
(* PromptTreeDataProvider: the debounced refresh and search filter *)
(* A timer handle is <<>> (null) or <<[live, due, filter]>>; a handle whose   *)
(* timer has fired or was cleared stays in its field, no longer live.         *)
(* Timers fire when due: the clock does not pass a live timer's due time.     *)

REFRESH_DELAY == 100
SEARCH_DELAY == 300

\* the step of the clock
Quantum == REFRESH_DELAY \div 2

MaxTicks == 12
MaxCalls == 3

Live(timeout) == timeout # <<>> /\ timeout[1].live

Spent == <<[live |-> FALSE, due |-> 0, filter |-> Null]>>

setTimeout(delay, filter) == <<[live |-> TRUE, due |-> now + delay, filter |-> filter]>>

\* refresh(): clearTimeout on the pending timer, then a new timer
refreshKeepPending == IF Live(refreshTimeout) THEN refreshTimeout ELSE setTimeout(REFRESH_DELAY, Null)

refreshClearOnly ==
    IF Live(refreshTimeout) THEN Spent ELSE setTimeout(REFRESH_DELAY, Null)

refreshArm == setTimeout(REFRESH_DELAY, Null)

\* setSearchFilter(filter): clearTimeout on the pending timer, then a new timer
searchArmKeepPending(filter) ==
    IF Live(searchTimeout) THEN searchTimeout ELSE setTimeout(SEARCH_DELAY, filter)

searchArm(filter) == setTimeout(SEARCH_DELAY, filter)

\* the filter the search timer's callback assigns
searchCallbackIgnoreNull(filter) == IF filter = Null THEN searchFilter ELSE filter

searchCallbackFilter(filter) == filter

NoHist ==
    [calls |-> 0, lastCall |-> 0, within |-> TRUE, spaced |-> TRUE, lastFire |-> 0,
     sets |-> 0, lastSet |-> Null, everFiltered |-> FALSE, lastSetAt |-> 0,
     superseded |-> <<>>]

\* a call of refresh() at the present time
NoteRefresh(h) ==
    [h EXCEPT !.calls = h.calls + 1,
              !.lastCall = now,
              !.within = h.within /\ (h.calls = 0 \/ now - h.lastCall < REFRESH_DELAY),
              !.spaced = h.spaced /\ (h.calls = 0 \/ now - h.lastCall > REFRESH_DELAY)]

Refresh ==
    /\ hist.calls + hist.sets < MaxCalls
    /\ refreshTimeout' = refreshArm
    /\ hist' = NoteRefresh(hist)
    /\ last' = Done("refresh", <<>>, FALSE)
    /\ UNCHANGED <<managerVars, prompts, categories, searchFilter, treeData, searchTimeout, now, fired>>

RefreshTimerFires ==
    /\ Live(refreshTimeout)
    /\ now = refreshTimeout[1].due
    /\ fired' = fired + 1
    /\ refreshTimeout' = Spent
    /\ hist' = [hist EXCEPT !.lastFire = now]
    /\ last' = Done("refreshTimer", <<>>, FALSE)
    /\ UNCHANGED <<managerVars, prompts, categories, searchFilter, treeData, searchTimeout, now>>

SetSearchFilter(filter) ==
    /\ hist.calls + hist.sets < MaxCalls
    /\ searchTimeout' = searchArm(filter)
    /\ hist' = [hist EXCEPT !.sets = hist.sets + 1, !.lastSet = filter, !.lastSetAt = now,
                            !.superseded = IF Live(searchTimeout)
                                           THEN <<searchTimeout[1].filter>>
                                           ELSE hist.superseded]
    /\ last' = Done("setSearchFilter", filter, FALSE)
    /\ UNCHANGED <<managerVars, prompts, categories, searchFilter, treeData, refreshTimeout, now, fired>>

\* the search timer's callback: assign the filter, then refresh()
SearchTimerFires ==
    /\ Live(searchTimeout)
    /\ now = searchTimeout[1].due
    /\ searchFilter' = searchCallbackFilter(searchTimeout[1].filter)
    /\ searchTimeout' = Spent
    /\ refreshTimeout' = refreshArm
    /\ hist' = [NoteRefresh(hist) EXCEPT
                    !.everFiltered = hist.everFiltered \/ filterActive(searchFilter')]
    /\ last' = Done("searchTimer", searchTimeout[1].filter, FALSE)
    /\ UNCHANGED <<managerVars, prompts, categories, treeData, now, fired>>

Tick ==
    /\ now + Quantum <= MaxTicks * Quantum
    /\ Live(refreshTimeout) => now + Quantum <= refreshTimeout[1].due
    /\ Live(searchTimeout) => now + Quantum <= searchTimeout[1].due
    /\ now' = now + Quantum
    /\ UNCHANGED <<managerVars, prompts, categories, searchFilter, treeData, refreshTimeout,
                   searchTimeout, fired, hist, last>>

DebouncePrompts ==
    <<[id |-> <<"p1">>, title |-> <<"A">>, content |-> <<"x">>, categoryId |-> C1Id,
       tags |-> <<>>],
      [id |-> <<"p2">>, title |-> <<"b">>, content |-> <<"x">>, categoryId |-> Absent,
       tags |-> <<>>]>>

DebounceCategories ==
    <<[id |-> C1Id, name |-> <<"b">>, sortOrder |-> <<0>>, createdAt |-> <<0>>]>>

DebounceFilters == {Null, <<<<"a">>>>, <<<<" ">>>>}

DebounceInit ==
    /\ prompts = DebouncePrompts
    /\ categories = DebounceCategories
    /\ searchFilter = Null
    /\ treeData = <<>>
    /\ refreshTimeout = <<>>
    /\ searchTimeout = <<>>
    /\ now = 0
    /\ fired = 0
    /\ hist = NoHist
    /\ ManagerIdle
    /\ last = NoCall

DebounceNext ==
    \/ Refresh
    \/ RefreshTimerFires
    \/ \E filter \in DebounceFilters : SetSearchFilter(filter)
    \/ SearchTimerFires
    \/ GetRootItems
    \/ Tick

DebounceSpec == DebounceInit /\ [][DebounceNext]_vars

-----------------------------------------------------------------------------
(* Deactivation.  deactivate() resets the search context and calls           *)
(* setSearchFilter(null) on the provider; the provider has no dispose and    *)
(* nothing clears its timers.  After deactivate() the extension makes no     *)
(* more calls; whether the host still runs the timers that are pending is    *)
(* up to the host, so they may fire.                                         *)

Deactivate ==
    /\ ~disposed
    /\ disposed' = TRUE
    /\ searchTimeout' = searchArm(Null)
    /\ hist' = [hist EXCEPT !.sets = hist.sets + 1, !.lastSet = Null, !.lastSetAt = now,
                            !.superseded = IF Live(searchTimeout)
                                           THEN <<searchTimeout[1].filter>>
                                           ELSE hist.superseded]
    /\ last' = Done("deactivate", <<>>, FALSE)
    /\ UNCHANGED <<prompts, categories, searchFilter, treeData, refreshTimeout, now, fired,
                   changeEvents, dataVersion, githubData, authToken, initialized, tasks>>

LifecycleFilters == {Null, <<<<"a">>>>}

LifecycleNext ==
    \/ ~disposed /\ Refresh
    \/ ~disposed /\ \E filter \in LifecycleFilters : SetSearchFilter(filter)
    \/ RefreshTimerFires
    \/ SearchTimerFires
    \/ Tick
    \/ Deactivate

LifecycleSpec == DebounceInit /\ [][LifecycleNext]_vars

-----------------------------------------------------------------------------
(* The tree view over a changing store: repository calls, the search filter *)
(* taking effect, and the host's queries, in any order.  The host passes to *)
(* getChildren the elements it was handed: those of the last hierarchical   *)
(* root list, or of the root list just returned.                            *)

findItemById(id) ==
    LET i == FindIndex(treeData, LAMBDA item : item.id = id)
    IN  IF i = 0 THEN <<>> ELSE <<treeData[i]>>

getParent(element) ==
    IF element.parentId # Absent THEN findItemById(element.parentId) ELSE <<>>

ViewPromptInputs ==
    [id : {<<"p1">>, guideIdOf(C1Id)}, title : {<<"a">>}, content : {<<"x">>},
     categoryId : {Absent, C1Id}, tags : {<<>>}]

ViewCategoryInputs ==
    {[id |-> C1Id, name |-> <<"b">>, sortOrder |-> Absent, createdAt |-> Absent]}

ViewFilters == {Null, <<<<"a">>>>, <<<<" ">>>>}

\* the search timer's callback: this.searchFilter = filter
ApplySearchFilter(filter) ==
    /\ searchFilter' = searchCallbackFilter(filter)
    /\ last' = Done("setSearchFilter", filter, FALSE)
    /\ UNCHANGED <<prompts, categories, treeData, refreshTimeout, searchTimeout, now,
                   fired, hist, managerVars>>

HostElements ==
    Range(treeData) \cup (IF last.op = "getRootItems" THEN Range(last.ret) ELSE {})

ViewInit ==
    /\ prompts = <<>>
    /\ categories = <<>>
    /\ ProviderIdle
    /\ ManagerIdle
    /\ last = NoCall

ViewNext ==
    \/ \E prompt \in ViewPromptInputs : SavePrompt(prompt)
    \/ \E category \in ViewCategoryInputs : SaveCategory(category)
    \/ \E id \in {C1Id} : DeleteCategory(id)
    \/ \E filter \in ViewFilters : ApplySearchFilter(filter)
    \/ GetRootItems
    \/ \E element \in HostElements : GetChildItems(element)

ViewSpec == ViewInit /\ [][ViewNext]_vars

-----------------------------------------------------------------------------
(* PromptManager: the user-level operations, each run to completion.         *)
(* What the editor and the dialogs return is an input of the action; <<>> is *)
(* a cancelled editor.  The store does not fail here.                        *)

MaxEvents == 2

ManagerPromptIds == {<<"p1">>, <<"p2">>}

ManagerPromptInputs ==
    [id : ManagerPromptIds, title : {<<"a">>}, content : {<<"x">>},
     categoryId : {Absent, C1Id}, tags : {<<>>}]

ManagerCategoryInputs ==
    [id : {C1Id}, name : {<<"a">>, <<"b">>}, sortOrder : {Absent}, createdAt : {Absent}]
        \cup [id : {C2Id}, name : {<<"a">>}, sortOrder : {Absent}, createdAt : {Absent}]

\* generateId: "pm_" + Date.now() + Math.random(), an id no stored record has
generateId(stored, pool) == pool \ {r.id : r \in Range(stored)}

Room(prompt) ==
    (\E p \in Range(prompts) : p.id = prompt.id) \/ Len(prompts) < MaxPrompts

fire == changeEvents + 1

ManagerFrame ==
    UNCHANGED <<providerVars, dataVersion, githubData, authToken, initialized, lifeVars>>

AddPrompt(newPrompt) ==
    /\ changeEvents < MaxEvents
    /\ Room(newPrompt)
    /\ prompts' = savePromptResult(getPrompts, newPrompt)
    /\ changeEvents' = fire
    /\ last' = Done("addPrompt", newPrompt, FALSE)
    /\ UNCHANGED categories
    /\ ManagerFrame

EditPrompt(promptId, editedPrompt) ==
    /\ changeEvents < MaxEvents
    /\ IF getPrompt(promptId) = <<>> \/ editedPrompt = <<>>
       THEN UNCHANGED <<prompts, changeEvents>>
       ELSE /\ editedPrompt[1].id = promptId
            /\ prompts' = savePromptResult(getPrompts, editedPrompt[1])
            /\ changeEvents' = fire
    /\ last' = Done("editPrompt", <<promptId, editedPrompt>>, FALSE)
    /\ UNCHANGED categories
    /\ ManagerFrame

ManagerDeletePrompt(promptId, confirmed) ==
    /\ changeEvents < MaxEvents
    /\ IF getPrompt(promptId) = <<>> \/ ~confirmed
       THEN UNCHANGED <<prompts, changeEvents>>
       ELSE /\ prompts' = deletePromptResult(getPrompts,
                              FindIndex(getPrompts, LAMBDA prompt : prompt.id = promptId))
            /\ changeEvents' = fire
    /\ last' = Done("deletePrompt", <<promptId, confirmed>>, FALSE)
    /\ UNCHANGED categories
    /\ ManagerFrame

DeleteUncategorizedPromptCompletely(promptId) ==
    LET filteredPrompts == Filter(getPrompts, LAMBDA p : p.id # promptId)
    IN  /\ changeEvents < MaxEvents
        /\ IF getPrompt(promptId) = <<>> \/ Len(filteredPrompts) = Len(getPrompts)
           THEN UNCHANGED <<prompts, changeEvents>>
           ELSE /\ prompts' = savePromptsResult(getPrompts, filteredPrompts)
                /\ changeEvents' = fire
        /\ last' = Done("deleteUncategorizedPromptCompletely", promptId, FALSE)
        /\ UNCHANGED categories
        /\ ManagerFrame

AddCategory(category) ==
    /\ changeEvents < MaxEvents
    /\ category.id \in generateId(categories, {C1Id, C2Id})
    /\ categories' = saveCategoryResult(getCategories, category)
    /\ changeEvents' = fire
    /\ last' = Done("addCategory", category, FALSE)
    /\ UNCHANGED prompts
    /\ ManagerFrame

EditCategory(categoryId, editedCategory) ==
    LET existingIndex == FindIndex(getCategories, LAMBDA c : c.id = categoryId)
    IN  /\ changeEvents < MaxEvents
        /\ IF existingIndex = 0 \/ editedCategory = <<>>
           THEN UNCHANGED <<categories, changeEvents>>
           ELSE /\ editedCategory[1].id = categoryId
                /\ categories' = [getCategories EXCEPT ![existingIndex] = editedCategory[1]]
                /\ changeEvents' = fire
        /\ last' = Done("editCategory", <<categoryId, editedCategory>>, FALSE)
        /\ UNCHANGED prompts
        /\ ManagerFrame

\* the prompts after deleteCategory's loop of updatePrompt calls
uncategorizeEachDropping(ps, categoryPrompts) ==
    Filter(ps, LAMBDA p : ~HasId(categoryPrompts, p.id))

RECURSIVE uncategorizeEach(_, _)
uncategorizeEach(ps, categoryPrompts) ==
    IF categoryPrompts = <<>>
    THEN ps
    ELSE uncategorizeEach(
             savePromptResult(ps, [Head(categoryPrompts) EXCEPT !.categoryId = Absent]),
             Tail(categoryPrompts))

ManagerDeleteCategory(categoryId, confirmed) ==
    LET category == FindIndex(getCategories, LAMBDA c : c.id = categoryId)
        categoryPrompts == Filter(getPrompts, LAMBDA p : p.categoryId = categoryId)
        moved == uncategorizeEach(getPrompts, categoryPrompts)
    IN  /\ changeEvents < MaxEvents
        /\ IF category = 0 \/ ~confirmed
           THEN UNCHANGED <<prompts, categories, changeEvents>>
           ELSE /\ prompts' = deleteCategoryPrompts(moved, categoryId)
                /\ categories' = deleteCategoryCategories(getCategories, categoryId)
                /\ changeEvents' = fire
        /\ last' = Done("deleteCategory", <<categoryId, confirmed>>, FALSE)
        /\ ManagerFrame

\* performImport: saveCategory for each category, then savePrompt for each prompt
ImportData(data) ==
    /\ Len(savePromptsResult(getPrompts, data.prompts)) <= MaxPrompts
    /\ categories' = saveCategoriesEach(getCategories, data.categories)
    /\ prompts' = savePromptsResult(getPrompts, data.prompts)
    /\ last' = Done("importData", data, FALSE)
    /\ UNCHANGED changeEvents
    /\ ManagerFrame

CreatePrompt(prompt) ==
    /\ prompt.id \in generateId(prompts, ManagerPromptIds)
    /\ Room(prompt)
    /\ prompts' = savePromptResult(getPrompts, prompt)
    /\ last' = Returned("createPrompt", prompt, prompt)
    /\ UNCHANGED <<categories, changeEvents>>
    /\ ManagerFrame

ClearAllData ==
    /\ prompts' = <<>>
    /\ categories' = <<>>
    /\ last' = Done("clearAllData", <<>>, FALSE)
    /\ UNCHANGED changeEvents
    /\ ManagerFrame

ImportBatch ==
    <<[id |-> <<"p1">>, title |-> <<"a">>, content |-> <<"x">>, categoryId |-> C1Id,
       tags |-> <<>>],
      [id |-> <<"p2">>, title |-> <<"a">>, content |-> <<"x">>, categoryId |-> C1Id,
       tags |-> <<>>]>>

ImportInputs ==
    [categories : SeqsOf(ManagerCategoryInputs, 1),
     prompts : SeqsOf(ManagerPromptInputs, 1) \cup {ImportBatch}]

ManagerInit ==
    /\ prompts = <<>>
    /\ categories = <<>>
    /\ ProviderIdle
    /\ ManagerIdle
    /\ last = NoCall

ManagerNext ==
    \/ \E newPrompt \in ManagerPromptInputs : AddPrompt(newPrompt)
    \/ \E promptId \in ManagerPromptIds :
           \E editedPrompt \in {<<>>} \cup {<<p>> : p \in ManagerPromptInputs} :
               EditPrompt(promptId, editedPrompt)
    \/ \E promptId \in ManagerPromptIds, confirmed \in BOOLEAN :
           ManagerDeletePrompt(promptId, confirmed)
    \/ \E promptId \in ManagerPromptIds : DeleteUncategorizedPromptCompletely(promptId)
    \/ \E category \in ManagerCategoryInputs : AddCategory(category)
    \/ \E categoryId \in {C1Id, C2Id} :
           \E editedCategory \in {<<>>} \cup {<<c>> : c \in ManagerCategoryInputs} :
               EditCategory(categoryId, editedCategory)
    \/ \E categoryId \in {C1Id, C2Id}, confirmed \in BOOLEAN :
           ManagerDeleteCategory(categoryId, confirmed)
    \/ \E data \in ImportInputs : ImportData(data)
    \/ \E prompt \in ManagerPromptInputs : CreatePrompt(prompt)
    \/ ClearAllData

ManagerSpec == ManagerInit /\ [][ManagerNext]_vars

-----------------------------------------------------------------------------
(* The change event and the notification.  activate() subscribes            *)
(* treeDataProvider.refresh() to onDidPromptsChange, so every fire of the   *)
(* event is a call of refresh().  The engine is not disposed here, the      *)
(* clock keeps running while a timer is pending, and a timer that is due    *)
(* fires: weak fairness on the clock and on the two timer callbacks.        *)

\* promptManager.onDidPromptsChange(() => treeDataProvider.refresh())
OnDidPromptsChange ==
    /\ changeEvents < MaxEvents
    /\ hist.calls + hist.sets < MaxCalls
    /\ changeEvents' = fire
    /\ refreshTimeout' = refreshArm
    /\ hist' = NoteRefresh(hist)
    /\ last' = Done("onDidPromptsChange", <<>>, FALSE)
    /\ UNCHANGED <<prompts, categories, searchFilter, treeData, searchTimeout, now, fired,
                   dataVersion, githubData, authToken, initialized, lifeVars>>

\* the clock: it runs on for as long as a timer is pending
Elapse ==
    /\ now < REFRESH_DELAY \/ Live(refreshTimeout) \/ Live(searchTimeout)
    /\ Live(refreshTimeout) => now + Quantum <= refreshTimeout[1].due
    /\ Live(searchTimeout) => now + Quantum <= searchTimeout[1].due
    /\ now' = now + Quantum
    /\ UNCHANGED <<managerVars, prompts, categories, searchFilter, treeData, refreshTimeout,
                   searchTimeout, fired, hist, last>>

NotifyNext ==
    \/ OnDidPromptsChange
    \/ \E filter \in {<<<<"a">>>>} : SetSearchFilter(filter)
    \/ RefreshTimerFires
    \/ SearchTimerFires
    \/ Elapse

NotifySpec ==
    /\ DebounceInit
    /\ [][NotifyNext]_vars
    /\ WF_vars(RefreshTimerFires)
    /\ WF_vars(SearchTimerFires)
    /\ WF_vars(Elapse)

-----------------------------------------------------------------------------
(* StorageService over a store that can fail: globalState.get may throw     *)
(* and globalState.update may reject.  Whether a call of the store fails is *)
(* an input of the action; a failed update writes nothing.  The argument    *)
(* recorded in `last` carries what happened: readFailed / writeFailed say   *)
(* that a store call of this method raised.                                 *)

FailurePromptInputs ==
    [id : {<<"p1">>, <<"p2">>}, title : {<<"a">>}, content : {<<"x">>},
     categoryId : {Absent, C1Id}, tags : {<<>>}]

FailureCategoryInputs == [id : {C1Id}, name : {<<"a">>, <<"b">>}, sortOrder : {Absent}, createdAt : {Absent}]

\* the try/catch of getPrompts and getCategories: the stored value, or []
readOrEmpty(stored, readFails) == IF readFails THEN <<>> ELSE stored

\* the catch block of the single-record write methods: log, then throw error
catchSwallows(failed) == FALSE

catchRethrows(failed) == failed

Outcome(input, readFailed, writeFailed) ==
    [input |-> input, readFailed |-> readFailed, writeFailed |-> writeFailed]

FailureFrame == UNCHANGED <<providerVars, managerVars>>

FailingGetPrompts(readFails) ==
    /\ last' = Returned("getPrompts", Outcome(<<>>, readFails, FALSE),
                        readOrEmpty(prompts, readFails))
    /\ UNCHANGED <<prompts, categories>>
    /\ FailureFrame

FailingGetCategories(readFails) ==
    /\ last' = Returned("getCategories", Outcome(<<>>, readFails, FALSE),
                        readOrEmpty(categories, readFails))
    /\ UNCHANGED <<prompts, categories>>
    /\ FailureFrame

FailingSavePrompt(prompt, readFails, writeFails) ==
    LET read == readOrEmpty(prompts, readFails)
    IN  /\ Len(savePromptResult(read, prompt)) <= MaxPrompts
        /\ prompts' = IF writeFails THEN prompts ELSE savePromptResult(read, prompt)
        /\ last' = Done("savePrompt", Outcome(prompt, readFails, writeFails),
                        catchRethrows(writeFails))
        /\ UNCHANGED categories
        /\ FailureFrame

FailingDeletePrompt(id, readFails, writeFails) ==
    LET read == readOrEmpty(prompts, readFails)
        promptIndex == FindIndex(read, LAMBDA prompt : prompt.id = id)
    IN  /\ IF promptIndex = 0
           THEN /\ last' = Done("deletePrompt", Outcome(id, readFails, FALSE), TRUE)
                /\ UNCHANGED prompts
           ELSE /\ prompts' = IF writeFails THEN prompts
                              ELSE deletePromptResult(read, promptIndex)
                /\ last' = Done("deletePrompt", Outcome(id, readFails, writeFails),
                                catchRethrows(writeFails))
        /\ UNCHANGED categories
        /\ FailureFrame

FailingSaveCategory(category, readFails, writeFails) ==
    LET read == readOrEmpty(categories, readFails)
    IN  /\ categories' = IF writeFails THEN categories ELSE saveCategoryResult(read, category)
        /\ last' = Done("saveCategory", Outcome(category, readFails, writeFails),
                        catchRethrows(writeFails))
        /\ UNCHANGED prompts
        /\ FailureFrame

FailingUpdateCategory(category, readFails, writeFails) ==
    LET read == readOrEmpty(categories, readFails)
        existingIndex == FindIndex(read, LAMBDA c : c.id = category.id)
    IN  /\ IF existingIndex = 0
           THEN /\ last' = Done("updateCategory", Outcome(category, readFails, FALSE), TRUE)
                /\ UNCHANGED categories
           ELSE /\ categories' = IF writeFails THEN categories
                                 ELSE [read EXCEPT ![existingIndex] = category]
                /\ last' = Done("updateCategory", Outcome(category, readFails, writeFails),
                                catchRethrows(writeFails))
        /\ UNCHANGED prompts
        /\ FailureFrame

\* Promise.all of the two updates: each may fail on its own, the other is written
FailingDeleteCategory(id, readFails, writeFailsCategories, writeFailsPrompts) ==
    LET readCategories == readOrEmpty(categories, readFails.categories)
        readPrompts == readOrEmpty(prompts, readFails.prompts)
        filteredCategories == deleteCategoryCategories(readCategories, id)
    IN  /\ IF Len(filteredCategories) = Len(readCategories)
           THEN /\ last' = Done("deleteCategory",
                                Outcome(id, readFails.categories, FALSE), TRUE)
                /\ UNCHANGED <<prompts, categories>>
           ELSE /\ categories' = IF writeFailsCategories THEN categories
                                 ELSE filteredCategories
                /\ prompts' = IF writeFailsPrompts THEN prompts
                              ELSE deleteCategoryPrompts(readPrompts, id)
                /\ last' = Done("deleteCategory",
                                Outcome(id, readFails.categories \/ readFails.prompts,
                                        writeFailsCategories \/ writeFailsPrompts),
                                catchRethrows(writeFailsCategories \/ writeFailsPrompts))
        /\ FailureFrame

\* Promise.all of three updates: prompts, categories, settings
FailingClearAll(writeFails) ==
    /\ prompts' = IF writeFails.prompts THEN prompts ELSE <<>>
    /\ categories' = IF writeFails.categories THEN categories ELSE <<>>
    /\ last' = Done("clearAll",
                    Outcome(<<>>, FALSE,
                            writeFails.prompts \/ writeFails.categories \/ writeFails.settings),
                    catchRethrows(writeFails.prompts \/ writeFails.categories
                                      \/ writeFails.settings))
    /\ FailureFrame

FailureInit ==
    /\ prompts = <<>>
    /\ categories = <<>>
    /\ ProviderIdle
    /\ ManagerIdle
    /\ last = NoCall

FailureNext ==
    \/ \E readFails \in BOOLEAN : FailingGetPrompts(readFails)
    \/ \E readFails \in BOOLEAN : FailingGetCategories(readFails)
    \/ \E prompt \in FailurePromptInputs, readFails \in BOOLEAN, writeFails \in BOOLEAN :
           FailingSavePrompt(prompt, readFails, writeFails)
    \/ \E id \in {<<"p1">>, <<"p2">>}, readFails \in BOOLEAN, writeFails \in BOOLEAN :
           FailingDeletePrompt(id, readFails, writeFails)
    \/ \E category \in FailureCategoryInputs, readFails \in BOOLEAN, writeFails \in BOOLEAN :
           FailingSaveCategory(category, readFails, writeFails)
    \/ \E category \in FailureCategoryInputs, readFails \in BOOLEAN, writeFails \in BOOLEAN :
           FailingUpdateCategory(category, readFails, writeFails)
    \/ \E id \in {C1Id}, readFails \in [categories : BOOLEAN, prompts : BOOLEAN],
          writeFailsCategories \in BOOLEAN, writeFailsPrompts \in BOOLEAN :
           FailingDeleteCategory(id, readFails, writeFailsCategories, writeFailsPrompts)
    \/ \E writeFails \in [prompts : BOOLEAN, categories : BOOLEAN, settings : BOOLEAN] :
           FailingClearAll(writeFails)

FailureSpec == FailureInit /\ [][FailureNext]_vars

-----------------------------------------------------------------------------
(* SyncService: the pull / push stub.  The configured token is <<>>          *)
(* (undefined) or <<string>>; an option is <<>> (not given) or <<boolean>>.  *)

NO_AUTH_TOKEN == "NO_AUTH_TOKEN"
NOT_IMPLEMENTED == "NOT_IMPLEMENTED"

\* !authToken
noToken(token) == token = <<>> \/ token[1] = <<>>

Failure(errorCode) == [success |-> FALSE, errorCode |-> errorCode]

pullResultAlwaysStub(token, options) == Failure(NOT_IMPLEMENTED)

pullResult(token, options) ==
    IF noToken(token) THEN Failure(NO_AUTH_TOKEN) ELSE Failure(NOT_IMPLEMENTED)

pushResult(token, options) ==
    IF noToken(token) THEN Failure(NO_AUTH_TOKEN) ELSE Failure(NOT_IMPLEMENTED)

SyncTokens == {<<>>, <<<<>>>>, <<<<"t">>>>}

SyncOptions == [force : {<<>>, <<TRUE>>, <<FALSE>>}, overwriteLocal : {<<>>, <<TRUE>>, <<FALSE>>}]

Pull(options) ==
    /\ last' = Returned("pull", options, pullResult(authToken, options))
    /\ UNCHANGED <<prompts, categories, providerVars, managerVars>>

Push(options) ==
    /\ last' = Returned("push", options, pushResult(authToken, options))
    /\ UNCHANGED <<prompts, categories, providerVars, managerVars>>

\* the user edits promptManager.syncAuthToken in the settings
ConfigureToken(token) ==
    /\ authToken' = token
    /\ last' = Done("configure", token, FALSE)
    /\ UNCHANGED <<prompts, categories, providerVars, changeEvents, dataVersion,
                   githubData, initialized, lifeVars>>

SyncInit ==
    /\ prompts \in SeqsOf(FailurePromptInputs, 1)
    /\ categories \in SeqsOf(FailureCategoryInputs, 1)
    /\ ProviderIdle
    /\ changeEvents = 0
    /\ dataVersion = Absent
    /\ githubData = Absent
    /\ authToken \in SyncTokens
    /\ initialized = FALSE
    /\ tasks = <<>>
    /\ disposed = FALSE
    /\ last = NoCall

SyncNext ==
    \/ \E options \in SyncOptions : Pull(options)
    \/ \E options \in SyncOptions : Push(options)
    \/ \E token \in SyncTokens : ConfigureToken(token)

SyncSpec == SyncInit /\ [][SyncNext]_vars

-----------------------------------------------------------------------------
(* Activation: StorageService.initialize and PromptManager.ensureDefaultData *)
(* The seven compiled-in categories are two here, and the compiled-in        *)
(* prompts are a guide and one more prompt; the list repeats a prompt, as    *)
(* the scanned and the explicitly imported lists are concatenated.           *)
(* The stored data version is <<>> (none) or <<version>>; the saved GitHub   *)
(* data is <<>> (none) or <<data>>.                                          *)

CURRENT_VERSION == "2.0.0"
GITHUB_DEFAULT == "github-default"

DEFAULT_CATEGORIES ==
    <<[id |-> C1Id, name |-> <<"a">>, sortOrder |-> <<0>>, createdAt |-> Absent],
      [id |-> C2Id, name |-> <<"b">>, sortOrder |-> <<1>>, createdAt |-> Absent]>>

DefaultGuide ==
    [id |-> guideIdOf(C1Id), title |-> <<"a", GUIDE_MARK>>, content |-> <<"x">>,
     categoryId |-> C1Id, tags |-> <<>>]

DefaultPrompt ==
    [id |-> <<"d2">>, title |-> <<"b">>, content |-> <<"x">>, categoryId |-> C2Id,
     tags |-> <<>>]

DEFAULT_PROMPTS == <<DefaultGuide, DefaultGuide, DefaultPrompt>>

\* StorageService.initialize: seed the defaults into an empty collection
storageInitialize(st) ==
    [st EXCEPT
        !.prompts = IF st.prompts = <<>>
                    THEN savePromptsResult(st.prompts, DEFAULT_PROMPTS)
                    ELSE st.prompts,
        !.categories = IF st.categories = <<>>
                       THEN saveCategoriesEach(st.categories, DEFAULT_CATEGORIES)
                       ELSE st.categories]

\* the branch of ensureDefaultData that restores the saved GitHub data
restoreGithubData(st) ==
    [st EXCEPT
        !.categories = saveCategoriesEach(<<>>, st.githubData[1].categories),
        !.prompts = savePromptsResult(<<>>, st.githubData[1].prompts)]

\* the branch that resets to the compiled-in defaults
resetToDefaults(st) ==
    [st EXCEPT
        !.categories = saveCategoriesEach(<<>>, DEFAULT_CATEGORIES),
        !.prompts = savePromptsResult(<<>>, DEFAULT_PROMPTS),
        !.dataVersion = <<CURRENT_VERSION>>]

\* the branch taken when the stored version is the current one
completeDefaults(st) ==
    LET missingCategories ==
            Filter(DEFAULT_CATEGORIES, LAMBDA c : ~HasId(st.categories, c.id))
        supplemented == saveCategoriesEach(st.categories, missingCategories)
        allCategories == IF st.categories = <<>>
                         THEN saveCategoriesEach(supplemented, DEFAULT_CATEGORIES)
                         ELSE supplemented
        promptsToDelete == Filter(st.prompts, LAMBDA p : ~HasId(DEFAULT_PROMPTS, p.id))
        updatedPrompts == Filter(st.prompts, LAMBDA p : HasId(DEFAULT_PROMPTS, p.id))
        cleaned == IF promptsToDelete # <<>>
                   THEN savePromptsResult(st.prompts, updatedPrompts)
                   ELSE st.prompts
        missingPrompts == Filter(DEFAULT_PROMPTS, LAMBDA p : ~HasId(st.prompts, p.id))
    IN  [st EXCEPT !.categories = allCategories,
                   !.prompts = savePromptsResult(cleaned, missingPrompts)]

needsResetWhenAbsent(storedVersion) == storedVersion = Absent

needsReset(storedVersion) == storedVersion # <<CURRENT_VERSION>>

ensureDefaultData(st) ==
    IF st.dataVersion = <<GITHUB_DEFAULT>> /\ st.githubData # <<>>
    THEN restoreGithubData(st)
    ELSE IF needsReset(st.dataVersion) THEN resetToDefaults(st) ELSE completeDefaults(st)

Stored ==
    [prompts |-> prompts, categories |-> categories, dataVersion |-> dataVersion,
     githubData |-> githubData]

Initialize ==
    LET st == ensureDefaultData(storageInitialize(Stored))
    IN  /\ prompts' = st.prompts
        /\ categories' = st.categories
        /\ dataVersion' = st.dataVersion
        /\ initialized' = TRUE
        /\ last' = Done("initialize", Stored, FALSE)
        /\ UNCHANGED <<providerVars, changeEvents, githubData, authToken, lifeVars>>

ReinitializeDefaultData(confirmed) ==
    LET cleared == [Stored EXCEPT
                        !.prompts = <<>>,
                        !.categories = <<>>,
                        !.dataVersion = IF githubData # <<>> THEN <<GITHUB_DEFAULT>> ELSE Absent]
        st == ensureDefaultData(cleared)
    IN  /\ initialized
        /\ changeEvents < MaxEvents
        /\ IF confirmed
           THEN /\ prompts' = st.prompts
                /\ categories' = st.categories
                /\ dataVersion' = st.dataVersion
                /\ changeEvents' = fire
           ELSE UNCHANGED <<prompts, categories, dataVersion, changeEvents>>
        /\ last' = Done("reinitializeDefaultData", confirmed, FALSE)
        /\ UNCHANGED <<providerVars, githubData, authToken, initialized, lifeVars>>

\* gitPull: save the fetched data as the default data, then clearAllData
GitPull(promptsData) ==
    /\ initialized
    /\ githubData' = <<promptsData>>
    /\ dataVersion' = <<GITHUB_DEFAULT>>
    /\ prompts' = <<>>
    /\ categories' = <<>>
    /\ last' = Done("gitPull", promptsData, FALSE)
    /\ UNCHANGED <<providerVars, changeEvents, authToken, initialized, lifeVars>>

\* the clock moves on between two activations or commands
TimePasses ==
    /\ now < MaxEvents * Quantum
    /\ now' = now + Quantum
    /\ UNCHANGED <<prompts, categories, searchFilter, treeData, refreshTimeout, searchTimeout,
                   fired, hist, managerVars, last>>

InitUserPrompts ==
    [id : {<<"p1">>}, title : {<<"a">>}, content : {<<"x">>},
     categoryId : {Absent, C1Id}, tags : {<<>>}]
        \cup {[DefaultGuide EXCEPT !.title = <<"b", GUIDE_MARK>>]}

InitUserCategories ==
    {[id |-> C1Id, name |-> <<"b">>, sortOrder |-> <<0>>, createdAt |-> <<0>>],
     [id |-> <<"c3">>, name |-> <<"a">>, sortOrder |-> <<2>>, createdAt |-> <<0>>]}

GithubDataInputs ==
    {[categories |-> <<[id |-> <<"c3">>, name |-> <<"a">>, sortOrder |-> <<0>>,
                        createdAt |-> Absent]>>,
      prompts |-> <<[id |-> <<"p1">>, title |-> <<"b">>, content |-> <<"x">>,
                     categoryId |-> <<"c3">>, tags |-> <<>>]>>],
     [categories |-> <<>>, prompts |-> <<>>]}

StoredVersions == {Absent, <<"1.0.0">>, <<CURRENT_VERSION>>, <<GITHUB_DEFAULT>>}

ActivationInit ==
    /\ prompts \in SeqsOf(InitUserPrompts, MaxPrompts)
    /\ categories \in SeqsOf(InitUserCategories, 2)
    /\ dataVersion \in StoredVersions
    /\ githubData \in {Absent} \cup {<<d>> : d \in GithubDataInputs}
    /\ ProviderIdle
    /\ changeEvents = 0
    /\ authToken = Absent
    /\ initialized = FALSE
    /\ tasks = <<>>
    /\ disposed = FALSE
    /\ last = NoCall

ActivationNext ==
    \/ Initialize
    \/ TimePasses
    \/ \E confirmed \in BOOLEAN : ReinitializeDefaultData(confirmed)
    \/ \E promptsData \in GithubDataInputs : GitPull(promptsData)

ActivationSpec == ActivationInit /\ [][ActivationNext]_vars

-----------------------------------------------------------------------------
(* StorageService calls in flight.  An async method runs up to an await,    *)
(* where the event loop may run another call's step: savePrompt and         *)
(* deletePrompt read the collection, suspend, then write back what they     *)
(* read with their change; deleteCategory reads the categories, suspends,   *)
(* reads the prompts, suspends, then issues both updates together.  A task  *)
(* holds the method's local variables; hist is the schedule so far.         *)

TaskIds == {"A", "B"}

Idle ==
    [op |-> "none", arg |-> <<>>, pc |-> "idle", prompts |-> <<>>, categories |-> <<>>,
     threw |-> FALSE]

Called(op, arg) == [Idle EXCEPT !.op = op, !.arg = arg]

At(t, op, pc) == tasks[t].op = op /\ tasks[t].pc = pc

Step(t, what) == Append(hist, <<t, what>>)

RaceFrame ==
    UNCHANGED <<searchFilter, treeData, refreshTimeout, searchTimeout, now, fired,
                changeEvents, dataVersion, githubData, authToken, initialized, disposed>>

\* the collection savePrompt writes back: the one it read, with the prompt upserted
writeBackRereading(read, prompt) == savePromptResult(getPrompts, prompt)

savePromptWriteBack(read, prompt) == savePromptResult(read, prompt)

\* const prompts = await this.getPrompts()
SavePromptReads(t, prompt) ==
    /\ tasks[t].pc = "idle"
    /\ tasks' = [tasks EXCEPT ![t] =
                    [Called("savePrompt", prompt) EXCEPT !.pc = "read", !.prompts = getPrompts]]
    /\ hist' = Step(t, "reads")
    /\ UNCHANGED <<prompts, categories, last>>
    /\ RaceFrame

\* await this.context.globalState.update(STORAGE_KEYS.PROMPTS, prompts)
SavePromptWrites(t) ==
    /\ At(t, "savePrompt", "read")
    /\ prompts' = savePromptWriteBack(tasks[t].prompts, tasks[t].arg)
    /\ tasks' = [tasks EXCEPT ![t].pc = "done"]
    /\ hist' = Step(t, "writes")
    /\ last' = Done("savePrompt", tasks[t].arg, FALSE)
    /\ UNCHANGED categories
    /\ RaceFrame

DeletePromptReads(t, id) ==
    LET promptIndex == FindIndex(getPrompts, LAMBDA prompt : prompt.id = id)
    IN  /\ tasks[t].pc = "idle"
        /\ tasks' = [tasks EXCEPT ![t] =
                        [Called("deletePrompt", id) EXCEPT
                            !.pc = IF promptIndex = 0 THEN "done" ELSE "read",
                            !.prompts = getPrompts,
                            !.threw = promptIndex = 0]]
        /\ hist' = Step(t, "reads")
        /\ last' = IF promptIndex = 0 THEN Done("deletePrompt", id, TRUE) ELSE last
        /\ UNCHANGED <<prompts, categories>>
        /\ RaceFrame

DeletePromptWrites(t) ==
    LET read == tasks[t].prompts
        promptIndex == FindIndex(read, LAMBDA prompt : prompt.id = tasks[t].arg)
    IN  /\ At(t, "deletePrompt", "read")
        /\ prompts' = deletePromptResult(read, promptIndex)
        /\ tasks' = [tasks EXCEPT ![t].pc = "done"]
        /\ hist' = Step(t, "writes")
        /\ last' = Done("deletePrompt", tasks[t].arg, FALSE)
        /\ UNCHANGED categories
        /\ RaceFrame

\* const categories = await this.getCategories(), and the length test
DeleteCategoryReadsCategories(t, id) ==
    LET found == HasId(getCategories, id)
    IN  /\ tasks[t].pc = "idle"
        /\ tasks' = [tasks EXCEPT ![t] =
                        [Called("deleteCategory", id) EXCEPT
                            !.pc = IF found THEN "readCategories" ELSE "done",
                            !.categories = getCategories,
                            !.threw = ~found]]
        /\ hist' = Step(t, "readsCategories")
        /\ last' = IF found THEN last ELSE Done("deleteCategory", id, TRUE)
        /\ UNCHANGED <<prompts, categories>>
        /\ RaceFrame

\* const prompts = await this.getPrompts()
DeleteCategoryReadsPrompts(t) ==
    /\ At(t, "deleteCategory", "readCategories")
    /\ tasks' = [tasks EXCEPT ![t].pc = "read", ![t].prompts = getPrompts]
    /\ hist' = Step(t, "reads")
    /\ UNCHANGED <<prompts, categories, last>>
    /\ RaceFrame

\* Promise.all of the two updates, both issued before the method suspends
DeleteCategoryWrites(t) ==
    /\ At(t, "deleteCategory", "read")
    /\ categories' = deleteCategoryCategories(tasks[t].categories, tasks[t].arg)
    /\ prompts' = deleteCategoryPrompts(tasks[t].prompts, tasks[t].arg)
    /\ tasks' = [tasks EXCEPT ![t].pc = "done"]
    /\ hist' = Step(t, "writes")
    /\ last' = Done("deleteCategory", tasks[t].arg, FALSE)
    /\ RaceFrame

RacePromptInputs ==
    [id : {<<"p1">>, <<"p2">>, <<"p3">>}, title : {<<"a">>}, content : {<<"x">>},
     categoryId : {Absent, C1Id}, tags : {<<>>}]

RaceCategories ==
    {<<>>, <<[id |-> C1Id, name |-> <<"a">>, sortOrder |-> <<0>>, createdAt |-> <<0>>]>>}

RaceInit ==
    /\ prompts \in SeqsOf([id : {<<"p3">>}, title : {<<"b">>}, content : {<<"x">>},
                           categoryId : {Absent, C1Id}, tags : {<<>>}], 1)
    /\ categories \in RaceCategories
    /\ ProviderIdle
    /\ changeEvents = 0
    /\ dataVersion = Absent
    /\ githubData = Absent
    /\ authToken = Absent
    /\ initialized = FALSE
    /\ tasks = [t \in TaskIds |-> Idle]
    /\ disposed = FALSE
    /\ last = NoCall

RaceNext ==
    \/ \E t \in TaskIds, prompt \in RacePromptInputs : SavePromptReads(t, prompt)
    \/ \E t \in TaskIds : SavePromptWrites(t)
    \/ \E t \in TaskIds, id \in {<<"p1">>, <<"p3">>} : DeletePromptReads(t, id)
    \/ \E t \in TaskIds : DeletePromptWrites(t)
    \/ \E t \in TaskIds, id \in {C1Id} : DeleteCategoryReadsCategories(t, id)
    \/ \E t \in TaskIds : DeleteCategoryReadsPrompts(t)
    \/ \E t \in TaskIds : DeleteCategoryWrites(t)

RaceSpec == RaceInit /\ [][RaceNext]_vars

-----------------------------------------------------------------------------
(* PromptManager.deleteCategory in flight.  The method reads the categories *)
(* and the prompts, then waits for the confirmation dialog; meanwhile the   *)
(* event loop runs other commands, here savePrompt calls that edit stored   *)
(* prompts.  Each StorageService call of the method runs to completion.     *)
(* The task's prompts field is the part of categoryPrompts still to move;   *)
(* hist lists the edits made, each with the method's position at the time.  *)

MaxEdits == 2

DialogFrame ==
    UNCHANGED <<searchFilter, treeData, refreshTimeout, searchTimeout, now, fired,
                dataVersion, githubData, authToken, initialized, disposed>>

\* the record the loop passes to updatePrompt: { ...prompt, categoryId: undefined }
movedPrompt(prompt) == [prompt EXCEPT !.categoryId = Absent]

\* Promise.all of getCategories and getPrompts, the test of the category, the dialog opened
DeleteCategoryAsks(categoryId) ==
    LET found == HasId(getCategories, categoryId)
    IN  /\ tasks["D"].pc = "idle"
        /\ tasks' = [tasks EXCEPT !["D"] =
                        [Called("deleteCategory", categoryId) EXCEPT
                            !.pc = IF found THEN "dialog" ELSE "done",
                            !.categories = getCategories,
                            !.prompts = Filter(getPrompts, LAMBDA p : p.categoryId = categoryId)]]
        /\ last' = IF found THEN last ELSE Done("deleteCategory", <<categoryId, FALSE>>, FALSE)
        /\ UNCHANGED <<prompts, categories, changeEvents, hist>>
        /\ DialogFrame

\* const confirmed = await this.uiService.showConfirmDialog(confirmMessage)
DeleteCategoryAnswered(confirmed) ==
    /\ At("D", "deleteCategory", "dialog")
    /\ tasks' = [tasks EXCEPT !["D"].pc = IF confirmed THEN "moving" ELSE "done"]
    /\ last' = IF confirmed THEN last ELSE Done("deleteCategory", <<tasks["D"].arg, FALSE>>, FALSE)
    /\ UNCHANGED <<prompts, categories, changeEvents, hist>>
    /\ DialogFrame

\* one turn of the loop: await this.storageService.updatePrompt(...)
DeleteCategoryMovesPrompt ==
    /\ At("D", "deleteCategory", "moving")
    /\ tasks["D"].prompts # <<>>
    /\ prompts' = savePromptResult(getPrompts, movedPrompt(Head(tasks["D"].prompts)))
    /\ tasks' = [tasks EXCEPT !["D"].prompts = Tail(tasks["D"].prompts)]
    /\ UNCHANGED <<categories, changeEvents, hist, last>>
    /\ DialogFrame

\* await this.storageService.deleteCategory(categoryId), then the change event;
\* an exception of the store call is caught and reported
DeleteCategoryDeletes ==
    LET id == tasks["D"].arg
        found == HasId(getCategories, id)
    IN  /\ At("D", "deleteCategory", "moving")
        /\ tasks["D"].prompts = <<>>
        /\ changeEvents < MaxEvents
        /\ IF found
           THEN /\ categories' = deleteCategoryCategories(getCategories, id)
                /\ prompts' = deleteCategoryPrompts(getPrompts, id)
                /\ changeEvents' = fire
           ELSE UNCHANGED <<prompts, categories, changeEvents>>
        /\ tasks' = [tasks EXCEPT !["D"].pc = "done", !["D"].threw = ~found]
        /\ last' = Done("deleteCategory", <<id, TRUE>>, FALSE)
        /\ UNCHANGED hist
        /\ DialogFrame

\* another command stores an edited prompt: StorageService.savePrompt
EditedMeanwhile(prompt) ==
    /\ Len(hist) < MaxEdits
    /\ HasId(getPrompts, prompt.id)
    /\ prompts' = savePromptResult(getPrompts, prompt)
    /\ hist' = Append(hist, [at |-> tasks["D"].pc, prompt |-> prompt])
    /\ last' = Done("savePrompt", prompt, FALSE)
    /\ UNCHANGED <<categories, changeEvents, tasks>>
    /\ DialogFrame

DialogPromptInputs ==
    [id : {<<"p1">>, <<"p2">>}, title : {<<"a">>, <<"b">>}, content : {<<"x">>},
     categoryId : {C1Id}, tags : {<<>>}]
        \cup {[id |-> <<"p1">>, title |-> <<"a">>, content |-> <<"x", "a">>,
                categoryId |-> Absent, tags |-> <<<<"a">>>>]}

DialogInit ==
    /\ prompts \in SeqsOf([id : {<<"p1">>, <<"p2">>}, title : {<<"a">>}, content : {<<"x">>},
                           categoryId : {Absent, C1Id}, tags : {<<>>}], 2)
    /\ categories \in RaceCategories
    /\ ProviderIdle
    /\ changeEvents = 0
    /\ dataVersion = Absent
    /\ githubData = Absent
    /\ authToken = Absent
    /\ initialized = FALSE
    /\ tasks = [t \in {"D"} |-> Idle]
    /\ disposed = FALSE
    /\ last = NoCall

DialogNext ==
    \/ \E categoryId \in {C1Id} : DeleteCategoryAsks(categoryId)
    \/ \E confirmed \in BOOLEAN : DeleteCategoryAnswered(confirmed)
    \/ DeleteCategoryMovesPrompt
    \/ DeleteCategoryDeletes
    \/ \E prompt \in DialogPromptInputs : EditedMeanwhile(prompt)

DialogSpec == DialogInit /\ [][DialogNext]_vars

-----------------------------------------------------------------------------
(* Properties of the repository *)

IndexOfId(s, id) == FindIndex(s, LAMBDA x : x.id = id)

\* C3: after deleteCategory(id) has completed without throwing, getPrompts()
\* holds no prompt whose categoryId is id.
C3_DeleteCategoryCascade ==
    (last.op = "deleteCategory" /\ ~last.threw)
        => \A p \in Range(getPrompts) : p.categoryId # last.arg

C3_Witness ==
    /\ last.op = "deleteCategory"
    /\ ~last.threw
    /\ Cardinality({i \in 1..Len(last.prePrompts) :
                        last.prePrompts[i].categoryId = last.arg}) >= 2

\* C9: savePrompt(p) is an upsert by id: a stored prompt with p's id is replaced
\* in place (same position, same length), otherwise p is appended at the end;
\* every other stored prompt is unchanged and getPrompt(p.id) returns p.
C9_SavePromptUpsert ==
    last.op = "savePrompt" =>
        LET p == last.arg
            pre == last.prePrompts
            i == IndexOfId(pre, p.id)
        IN  /\ ~last.threw
            /\ IF i >= 1
               THEN /\ Len(getPrompts) = Len(pre)
                    /\ getPrompts[i] = p
                    /\ \A j \in 1..Len(pre) : j # i => getPrompts[j] = pre[j]
               ELSE /\ Len(getPrompts) = Len(pre) + 1
                    /\ getPrompts[Len(pre) + 1] = p
                    /\ \A j \in 1..Len(pre) : getPrompts[j] = pre[j]
            /\ getPrompt(p.id) = <<p>>
            /\ categories = last.preCategories

C9_Witness ==
    /\ last.op = "savePrompt"
    /\ Len(last.prePrompts) >= 2
    /\ last.prePrompts[1].id = last.arg.id
    /\ last.prePrompts[1] # last.arg

\* C10: deletePrompt(id) is a soft delete: an existing prompt stays stored with
\* categoryId absent, its other fields and all other prompts unchanged; with no
\* such prompt the call throws and the store is unchanged.
C10_DeletePromptSoft ==
    last.op = "deletePrompt" =>
        LET pre == last.prePrompts
            i == IndexOfId(pre, last.arg)
        IN  /\ categories = last.preCategories
            /\ IF i >= 1
               THEN /\ ~last.threw
                    /\ Len(getPrompts) = Len(pre)
                    /\ getPrompts[i].id = pre[i].id
                    /\ getPrompts[i].title = pre[i].title
                    /\ getPrompts[i].content = pre[i].content
                    /\ getPrompts[i].tags = pre[i].tags
                    /\ getPrompts[i].categoryId = Absent
                    /\ \A j \in 1..Len(pre) : j # i => getPrompts[j] = pre[j]
               ELSE /\ last.threw
                    /\ getPrompts = pre

C10_Witness ==
    /\ last.op = "deletePrompt"
    /\ ~last.threw
    /\ Len(last.prePrompts) >= 2
    /\ \E i \in 1..Len(last.prePrompts) :
          /\ last.prePrompts[i].id = last.arg
          /\ last.prePrompts[i].categoryId # Absent
          /\ last.prePrompts[i].title = <<"b">>

-----------------------------------------------------------------------------
(* Properties of the tree projection *)

Count(s, Test(_)) == Cardinality({k \in 1..Len(s) : Test(s[k])})

\* C1: with no filter set, getRootItems() returns exactly one CategoryNode per
\* stored category, plus exactly one uncategorized node if some prompt's
\* categoryId is absent or names no stored category, and none otherwise.
C1_RootItemsPerCategory ==
    (last.op = "getRootItems" /\ searchFilter = Null) =>
        LET r == last.ret
            loose == {i \in 1..Len(prompts) :
                        \/ prompts[i].categoryId = Absent
                        \/ \A j \in 1..Len(categories) :
                              categories[j].id # prompts[i].categoryId}
        IN  /\ \A k \in 1..Len(r) : r[k].contextValue = CATEGORY_ITEM
            /\ \A j \in 1..Len(categories) :
                  Count(r, LAMBDA n : n.id = categories[j].id /\ n.data = categories[j]) = 1
            /\ Count(r, LAMBDA n : n.id # UNCATEGORIZED) = Len(categories)
            /\ Count(r, LAMBDA n : n.id = UNCATEGORIZED) = (IF loose = {} THEN 0 ELSE 1)

C1_Witness ==
    /\ last.op = "getRootItems"
    /\ searchFilter = Null
    /\ Len(categories) = 1
    /\ Len(last.ret) = 2
    /\ prompts # <<>>
    /\ \A i \in 1..Len(prompts) : prompts[i].categoryId # Absent

\* C2: for an ordinary category holding a prompt that matches the guide
\* convention, getChildItems(category) returns such a prompt as its first child,
\* the GuideLeaf, and no later child is that same prompt.
C2_GuideFirstNoDuplicate ==
    (/\ last.op = "getChildItems"
     /\ last.arg.contextValue = CATEGORY_ITEM
     /\ last.arg.id # UNCATEGORIZED
     /\ \E p \in Range(prompts) : p.categoryId = last.arg.id /\ isGuide(p)) =>
        LET r == last.ret
        IN  /\ Len(r) >= 1
            /\ r[1].contextValue = GUIDE_ITEM
            /\ r[1].data \in Range(prompts)
            /\ r[1].data.categoryId = last.arg.id
            /\ isGuide(r[1].data)
            /\ \A k \in 2..Len(r) : r[k].data.id # r[1].data.id

\* C17: without an effective filter getRootItems() lists the CategoryNodes in
\* the order getCategories() returns the categories, whatever their sortOrder,
\* and the uncategorized node, when present, comes last.
C17_RootOrderIsStoreOrder ==
    last.op = "getRootItems" =>
        LET r == last.ret
            n == Len(categories)
        IN  /\ Len(r) \in {n, n + 1}
            /\ \A i \in 1..n : r[i].id = categories[i].id /\ r[i].data = categories[i]
            /\ Len(r) = n + 1 => r[n + 1].id = UNCATEGORIZED

C17_Witness ==
    /\ last.op = "getRootItems"
    /\ Len(last.ret) = 3
    /\ last.ret[1].sortOrder = <<1>>
    /\ last.ret[2].sortOrder = <<0>>
    /\ last.ret[3].id = UNCATEGORIZED

\* C18: getChildItems on the uncategorized node returns exactly the stored
\* prompts whose categoryId is absent or names no stored category, each once,
\* as PromptLeaf nodes whose parentId is the sentinel, and no GuideLeaf.
C18_UncategorizedChildren ==
    (/\ last.op = "getChildItems"
     /\ last.arg.contextValue = CATEGORY_ITEM
     /\ last.arg.id = UNCATEGORIZED) =>
        LET r == last.ret
            loose == {i \in 1..Len(prompts) :
                        \/ prompts[i].categoryId = Absent
                        \/ \A j \in 1..Len(categories) :
                              categories[j].id # prompts[i].categoryId}
        IN  /\ Len(r) = Cardinality(loose)
            /\ \A i \in loose : Count(r, LAMBDA n : n.data = prompts[i]) = 1
            /\ \A k \in 1..Len(r) :
                  /\ r[k].contextValue = PROMPT_ITEM
                  /\ r[k].parentId = UNCATEGORIZED

\* C16: every PromptLeaf and GuideLeaf that getChildItems returns has a
\* parentId, and getParent resolves it, against the last computed root list, to
\* a CategoryNode or to the uncategorized node, never to nothing.
C16_ParentResolves ==
    last.op = "getChildItems" =>
        \A k \in 1..Len(last.ret) :
            LET parent == getParent(last.ret[k])
            IN  /\ last.ret[k].contextValue \in {PROMPT_ITEM, GUIDE_ITEM}
                /\ last.ret[k].parentId # Absent
                /\ parent # <<>>
                /\ parent[1].contextValue = CATEGORY_ITEM
                /\ parent[1].id = last.arg.id

C16_Witness ==
    /\ last.op = "getChildItems"
    /\ treeData # hierarchy(prompts, categories)
    /\ \E k \in 1..Len(last.ret) : last.ret[k].contextValue = GUIDE_ITEM
    /\ \E k \in 1..Len(last.ret) : last.ret[k].contextValue = PROMPT_ITEM

Blank(filter) == filter = Null \/ \A i \in 1..Len(filter[1]) : filter[1][i] = " "

\* C19: with a filter that is set and not blank, getRootItems() returns only
\* PromptLeaf nodes without parentId (no CategoryNode, no uncategorized node,
\* no GuideLeaf); with a null, empty or blank filter it returns the
\* hierarchical list.
C19_FlatWhenFiltered ==
    last.op = "getRootItems" =>
        IF Blank(searchFilter)
        THEN /\ last.ret = hierarchy(prompts, categories)
             /\ \A k \in 1..Len(last.ret) : last.ret[k].contextValue = CATEGORY_ITEM
        ELSE \A k \in 1..Len(last.ret) :
                 /\ last.ret[k].contextValue = PROMPT_ITEM
                 /\ last.ret[k].parentId = Absent
                 /\ last.ret[k].id # UNCATEGORIZED

C19_Witness ==
    /\ last.op = "getRootItems"
    /\ ~Blank(searchFilter)
    /\ Len(last.ret) = 2
    /\ categories # <<>>
    /\ treeData # <<>>

C19_WitnessBlank ==
    /\ last.op = "getRootItems"
    /\ searchFilter = <<<<" ">>>>
    /\ Len(last.ret) = 2

-----------------------------------------------------------------------------
(* Properties of the search filter *)

\* the prompts a returned node list shows
Shown(r) == {r[k].data : k \in 1..Len(r)}

ContainsCI(str, term) == includes(toLowerCase(str), toLowerCase(term))

\* the term as searched for: surrounding blanks do not count
EffectiveTerm == trim(searchFilter[1])

Searched == last.op = "getRootItems" /\ filterActive(searchFilter)

\* C6: in the search result every prompt whose title contains the term, case
\* ignored, comes before every prompt whose title does not, and within each of
\* the two tiers the prompts are in ascending order of title.
C6_SearchRanking ==
    Searched =>
        LET r == last.ret
        IN  \A i, j \in 1..Len(r) :
                i < j =>
                    LET ti == ContainsCI(r[i].data.title, EffectiveTerm)
                        tj == ContainsCI(r[j].data.title, EffectiveTerm)
                    IN  /\ tj => ti
                        /\ (ti = tj) => localeCompare(r[i].data.title, r[j].data.title) <= 0

C6_Witness ==
    /\ Searched
    /\ Len(last.ret) = 3
    /\ ContainsCI(last.ret[2].data.title, EffectiveTerm)
    /\ ~ContainsCI(last.ret[3].data.title, EffectiveTerm)
    /\ last.ret[1].data.title # last.ret[2].data.title
    /\ last.ret[1].data = prompts[3]
    /\ last.ret[3].data = prompts[1]

\* C7: for a non-blank term the prompts of the search result are exactly the
\* stored prompts whose title, content or some tag contains the term, case
\* ignored, together with every prompt of a category whose name contains it.
C7_SearchResultSet ==
    Searched =>
        Shown(last.ret) =
            {p \in Range(prompts) :
                \/ ContainsCI(p.title, EffectiveTerm)
                \/ ContainsCI(p.content, EffectiveTerm)
                \/ \E t \in Range(p.tags) : ContainsCI(t, EffectiveTerm)
                \/ \E c \in Range(categories) :
                      c.id = p.categoryId /\ ContainsCI(c.name, EffectiveTerm)}

C7_Witness ==
    /\ Searched
    /\ \E p \in Shown(last.ret) :
          /\ ~ContainsCI(p.title, EffectiveTerm)
          /\ ~ContainsCI(p.content, EffectiveTerm)
          /\ \A t \in Range(p.tags) : ~ContainsCI(t, EffectiveTerm)
    /\ \E p \in Shown(last.ret) :
          /\ ~ContainsCI(p.title, EffectiveTerm)
          /\ ContainsCI(p.content, EffectiveTerm)
          /\ p.categoryId = Absent
    /\ \E p \in Range(prompts) : p \notin Shown(last.ret)

\* C8: the search result never holds the same prompt twice, also when the
\* prompt matches both directly and through its category's name.
C8_SearchNoDuplicates ==
    Searched =>
        \A i, j \in 1..Len(last.ret) :
            last.ret[i].data.id = last.ret[j].data.id => i = j

C8_Witness ==
    /\ Searched
    /\ \E p \in Shown(last.ret) :
          /\ \E t \in Range(p.tags) : ContainsCI(t, EffectiveTerm)
          /\ \E c \in Range(categories) :
                c.id = p.categoryId /\ ContainsCI(c.name, EffectiveTerm)
    /\ Cardinality(Shown(last.ret)) = Len(last.ret)

-----------------------------------------------------------------------------
(* Properties of the debounce *)

\* C4: calls of refresh() that each come less than REFRESH_DELAY after the one
\* before produce exactly one notification, REFRESH_DELAY after the last call;
\* calls each more than REFRESH_DELAY after the one before produce one
\* notification per call.
C4_RefreshDebounce ==
    hist.calls >= 1 =>
        /\ hist.within =>
              IF Live(refreshTimeout)
              THEN fired = 0
              ELSE fired = 1 /\ hist.lastFire = hist.lastCall + REFRESH_DELAY
        /\ hist.spaced =>
              fired = hist.calls - (IF Live(refreshTimeout) THEN 1 ELSE 0)

C4_Witness ==
    /\ hist.calls = 3
    /\ hist.sets = 0
    /\ hist.within
    /\ hist.lastCall = 2 * Quantum
    /\ ~Live(refreshTimeout)
    /\ fired = 1

\* C5 as stated: whenever the last setSearchFilter call was setSearchFilter(null),
\* getRootItems() returns the list of an engine on which no filter was set.
C5_ClearedAtOnce ==
    (hist.sets >= 1 /\ hist.lastSet = Null /\ last.op = "getRootItems") =>
        last.ret = hierarchy(getPrompts, getCategories)

\* C5, amended: after a sequence of setSearchFilter calls ending with
\* setSearchFilter(null), once the timer of that last call has fired,
\* getRootItems() returns the list of an engine on which no filter was set.
C5_ClearedAfterDebounce ==
    (/\ hist.sets >= 1
     /\ hist.lastSet = Null
     /\ ~Live(searchTimeout)
     /\ last.op = "getRootItems") =>
        last.ret = hierarchy(getPrompts, getCategories)

C5_Witness ==
    /\ hist.sets >= 2
    /\ hist.lastSet = Null
    /\ hist.everFiltered
    /\ ~Live(searchTimeout)
    /\ last.op = "getRootItems"
    /\ last.ret = treeData

-----------------------------------------------------------------------------
(* Properties of the PromptManager operations *)

\* C11: after deleteUncategorizedPromptCompletely(id) the store holds no prompt
\* with that id: getPrompts() has none and getPrompt(id) is absent.
C11_DeleteCompletelyRemoves ==
    last.op = "deleteUncategorizedPromptCompletely"
        => /\ \A p \in Range(getPrompts) : p.id # last.arg
           /\ getPrompt(last.arg) = <<>>

\* the count the uncategorized node of a root list shows, 0 when it has none
UncategorizedCount(roots) ==
    IF \E k \in 1..Len(roots) : roots[k].id = UNCATEGORIZED
    THEN roots[CHOOSE k \in 1..Len(roots) : roots[k].id = UNCATEGORIZED].label.count[1]
    ELSE 0

\* C20: after deleteCategory(id) has deleted a stored category, the number of
\* stored prompts is unchanged, every prompt that referenced id is still stored,
\* with categoryId absent, the root list has no node for id, and the count of
\* the uncategorized node has grown by the number of prompts that referenced id.
C20_DeleteCategoryKeepsPrompts ==
    (/\ last.op = "deleteCategory"
     /\ last.arg[2]
     /\ HasId(last.preCategories, last.arg[1])) =>
        LET id == last.arg[1]
            before == last.prePrompts
            referencing == {i \in 1..Len(before) : before[i].categoryId = id}
            rootsBefore == hierarchy(before, last.preCategories)
            rootsAfter == hierarchy(prompts, categories)
        IN  /\ Len(prompts) = Len(before)
            /\ \A i \in referencing :
                   Count(prompts, LAMBDA p : p = [before[i] EXCEPT !.categoryId = Absent]) = 1
            /\ \A k \in 1..Len(rootsAfter) : rootsAfter[k].id # id
            /\ UncategorizedCount(rootsAfter)
                   = UncategorizedCount(rootsBefore) + Cardinality(referencing)

C20_Witness ==
    /\ last.op = "deleteCategory"
    /\ last.arg[2]
    /\ Len(last.preCategories) = 2
    /\ \A i \in 1..Len(last.prePrompts) : last.prePrompts[i].categoryId = last.arg[1]
    /\ Len(prompts) = 2
    /\ Len(categories) = 1
    /\ UncategorizedCount(hierarchy(prompts, categories)) = 2

\* C13: every operation that changes the stored prompts or categories fires
\* onDidPromptsChange.
C13_EveryChangeFires ==
    [][(prompts' # prompts \/ categories' # categories) => changeEvents' > changeEvents]_vars

-----------------------------------------------------------------------------
(* Properties of the repository over a failing store *)

SingleWrites ==
    {"savePrompt", "deletePrompt", "saveCategory", "updateCategory", "deleteCategory",
     "clearAll"}

Reads == {"getPrompts", "getCategories"}

-----------------------------------------------------------------------------
(* Properties of the sync stub *)

-----------------------------------------------------------------------------
(* Properties of activation *)

HoldsExactly(stored, records) ==
    /\ UniqueIds(stored)
    /\ Range(stored) = Range(records)

\* the stored categories are the given ones, each with a creation time
HoldsCategories(stored, records) ==
    /\ UniqueIds(stored)
    /\ \A c \in Range(stored) : c.createdAt # Absent
    /\ {[c EXCEPT !.createdAt = Absent] : c \in Range(stored)} = Range(records)

\* C15 as stated: initialize with any stored data version other than the
\* current one leaves exactly the compiled-in default prompts and categories.
C15_OutdatedVersionResets ==
    last.op = "initialize" /\ last.arg.dataVersion # <<CURRENT_VERSION>>
        => /\ HoldsExactly(prompts, DEFAULT_PROMPTS)
           /\ HoldsCategories(categories, DEFAULT_CATEGORIES)

\* C15 amended: the same, except when the stored version is "github-default"
\* and GitHub data is saved: then the store holds exactly the saved GitHub
\* data.  In both cases nothing stored before survives.
C15_OutdatedVersionResetsOrRestores ==
    last.op = "initialize" /\ last.arg.dataVersion # <<CURRENT_VERSION>>
        => IF last.arg.dataVersion = <<GITHUB_DEFAULT>> /\ last.arg.githubData # <<>>
           THEN /\ HoldsExactly(prompts, last.arg.githubData[1].prompts)
                /\ HoldsCategories(categories, last.arg.githubData[1].categories)
           ELSE /\ HoldsExactly(prompts, DEFAULT_PROMPTS)
                /\ HoldsCategories(categories, DEFAULT_CATEGORIES)
                /\ dataVersion = <<CURRENT_VERSION>>

C15_Witness ==
    /\ last.op = "initialize"
    /\ last.arg.dataVersion = <<"1.0.0">>
    /\ \E p \in Range(last.arg.prompts) : ~HasId(DEFAULT_PROMPTS, p.id)
    /\ \E c \in Range(last.arg.categories) : ~HasId(DEFAULT_CATEGORIES, c.id)
    /\ Len(prompts) = 2
    /\ Len(categories) = 2

-----------------------------------------------------------------------------
(* Properties of the calls in flight *)

AllDone == \A t \in TaskIds : tasks[t].pc = "done"

LostUpdateSchedule ==
    <<<<"A", "reads">>, <<"B", "reads">>, <<"A", "writes">>, <<"B", "writes">>>>

TwoNewPrompts ==
    /\ tasks["A"].op = "savePrompt"
    /\ tasks["B"].op = "savePrompt"
    /\ tasks["A"].arg.id # tasks["B"].arg.id
    /\ ~HasId(tasks["A"].prompts, tasks["A"].arg.id)
    /\ ~HasId(tasks["A"].prompts, tasks["B"].arg.id)

\* C21: two savePrompt calls for different new ids scheduled as A reads, B
\* reads, A writes, B writes leave a store that holds B's prompt and not A's;
\* the prompts stored before are untouched.
C21_LostUpdate ==
    (TwoNewPrompts /\ hist = LostUpdateSchedule) =>
        /\ HasId(prompts, tasks["B"].arg.id)
        /\ ~HasId(prompts, tasks["A"].arg.id)
        /\ prompts = Append(tasks["A"].prompts, tasks["B"].arg)

C21_Witness ==
    /\ TwoNewPrompts
    /\ hist = LostUpdateSchedule
    /\ AllDone
    /\ Len(prompts) = 2
    /\ ~HasId(prompts, tasks["A"].arg.id)

\* the position of a step in the schedule, 0 when it has not happened
StepAt(t, what) ==
    IF \E i \in 1..Len(hist) : hist[i] = <<t, what>>
    THEN CHOOSE i \in 1..Len(hist) : hist[i] = <<t, what>>
    ELSE 0

\* C22: when deleteCategory(id) ran interleaved with a savePrompt or a
\* deletePrompt that read the prompts before the delete wrote them (and that
\* does not itself store a reference to id), then after both have completed no
\* stored prompt has categoryId = id.
C22_NoOrphanAfterRace ==
    \A d, s \in TaskIds :
        (/\ AllDone
         /\ tasks[d].op = "deleteCategory" /\ ~tasks[d].threw
         /\ tasks[s].op \in {"savePrompt", "deletePrompt"} /\ ~tasks[s].threw
         /\ tasks[s].op = "savePrompt" => tasks[s].arg.categoryId # tasks[d].arg
         /\ StepAt(s, "reads") < StepAt(d, "writes"))
            => \A p \in Range(prompts) : p.categoryId # tasks[d].arg

\* C27: when deleteCategory has completed after a confirmed dialog, every
\* prompt that was edited while the dialog was pending, and not edited again
\* later, carries the edited title, content and tags.
C27_EditSurvivesDelete ==
    (tasks["D"].pc = "done" /\ last.op = "deleteCategory" /\ last.arg[2]) =>
        \A i \in 1..Len(hist) :
            (/\ hist[i].at = "dialog"
             /\ \A j \in (i + 1)..Len(hist) : hist[j].prompt.id # hist[i].prompt.id) =>
                \E p \in Range(prompts) :
                    /\ p.id = hist[i].prompt.id
                    /\ p.title = hist[i].prompt.title
                    /\ p.content = hist[i].prompt.content
                    /\ p.tags = hist[i].prompt.tags

-----------------------------------------------------------------------------
(* Properties of the debounced search filter *)

\* C23: the active filter changes only when the 300 ms window after the most
\* recent setSearchFilter call has elapsed, and then to the term of that most
\* recent call: the term of a call superseded within the window is not applied.
C23_TrailingEdgeLastWins ==
    [][searchFilter' # searchFilter =>
          /\ hist.sets >= 1
          /\ now >= hist.lastSetAt + SEARCH_DELAY
          /\ searchFilter' = hist.lastSet]_vars

C23_Witness ==
    /\ last.op = "searchTimer"
    /\ hist.sets >= 2
    /\ hist.superseded = <<Null>>
    /\ hist.lastSet = <<<<"a">>>>
    /\ searchFilter = hist.lastSet
    /\ hist.lastSetAt > 0

\* C24: once deactivate() has run, no tree-change notification is emitted and
\* no timer callback assigns searchFilter.
C24_NoTimerAfterDeactivate ==
    [][disposed => (fired' = fired /\ ~SearchTimerFires)]_vars

-----------------------------------------------------------------------------
(* Properties of activation with the current data version *)

\* C25: after initialize has run with the stored data version equal to the
\* current one, no stored prompt has an id outside the ids of DEFAULT_PROMPTS.
C25_OutdatedPromptsRemoved ==
    (last.op = "initialize" /\ last.arg.dataVersion = <<CURRENT_VERSION>>)
        => \A p \in Range(prompts) : HasId(DEFAULT_PROMPTS, p.id)

\* C30: a second initialize, with no user operation since the first, leaves the
\* stored prompts, categories and data version as the first run left them.
C30_InitializeIdempotent ==
    [][(last.op = "initialize" /\ Initialize) =>
          /\ prompts' = prompts
          /\ categories' = categories
          /\ dataVersion' = dataVersion]_vars

Undated(cs) == [i \in 1..Len(cs) |-> [cs[i] EXCEPT !.createdAt = Absent]]

\* the same, the creation times of the categories left aside
C30_IdempotentUpToCreatedAt ==
    [][(last.op = "initialize" /\ Initialize) =>
          /\ prompts' = prompts
          /\ Undated(categories') = Undated(categories)
          /\ dataVersion' = dataVersion]_vars

-----------------------------------------------------------------------------
(* Properties of the repository with batch saves *)

\* C26: in every state reachable from the empty store by savePrompt,
\* savePrompts, deletePrompt, saveCategory, saveCategories, updateCategory,
\* deleteCategory and clearAll, run one after the other, no two stored prompts
\* share an id and no two stored categories share an id.
C26_IdsUnique == UniqueIds(prompts) /\ UniqueIds(categories)

C26_Witness ==
    /\ last.op = "savePrompts"
    /\ Len(last.arg) = 2
    /\ last.arg[1].id = last.arg[2].id
    /\ last.arg[1] # last.arg[2]
    /\ HasId(last.prePrompts, last.arg[1].id)
    /\ Len(last.prePrompts) = 2
    /\ Len(categories) = 2

-----------------------------------------------------------------------------
(* Properties of the tree projection as a whole *)

\* the prompts the children of a root node show
ShownUnder(node) == {getChildItems(node)[k].data : k \in 1..Len(getChildItems(node))}

\* C28: with no filter set, every stored prompt is shown, as a PromptLeaf or as
\* the guide prompt of a GuideLeaf, among the children of some node of
\* getRootItems() (stores without the id '__uncategorized__-guide').
C28_NoPromptHidden ==
    (/\ last.op = "getRootItems"
     /\ \A p \in Range(prompts) : p.id # guideIdOf(UNCATEGORIZED)) =>
        \A p \in Range(prompts) : \E node \in Range(last.ret) : p \in ShownUnder(node)

-----------------------------------------------------------------------------
(* Properties of the change event *)

\* C29: every fire of onDidPromptsChange is eventually followed by a
\* tree-change notification: from a state where the event has just fired and
\* n notifications have been emitted, a state with more than n is reached.
C29_ChangeLeadsToNotification ==
    \A n \in 0..(MaxCalls + MaxEvents) :
        (last.op = "onDidPromptsChange" /\ fired = n) ~> (fired > n)

C29_Witness ==
    /\ changeEvents >= 1
    /\ hist.sets >= 1
    /\ hist.calls >= 2
    /\ last.op = "refreshTimer"
    /\ fired = 1
    /\ hist.lastFire = hist.lastSetAt + SEARCH_DELAY + REFRESH_DELAY
    /\ hist.lastSetAt > 0

====
